---- MODULE Spec2Model ----
(***************************************************************************)
(* Flow execution engine of llmrouter: FlowExecutor.execute                *)
(* (src/flows/executor.ts) driving a parsed flow through an LLM client,    *)
(* with formatStepPrompt (src/flows/parser.ts) building each step prompt,  *)
(* and one chat call on a provider client, ClaudeClient (src/llm/claude.ts) *)
(* or OpenAIClient (src/llm/openai.ts), followed from the credential test  *)
(* through fetch to handleStream or handleNonStream. Further parts follow  *)
(* validateApiKey, parseFlowDescription and validateFlow, the flows panel  *)
(* (src/ui/flows.ts), two execute calls under way at once with the client  *)
(* being replaced, the serverless proxy (api/chat.ts), and execute under a *)
(* fair runtime and under a ticking clock.                                 *)
(*                                                                         *)
(* Strings of the program are TLA+ strings; SubSeq, Len and \o act on them *)
(* character by character.                                                 *)
(***************************************************************************)
EXTENDS Integers, Sequences, FiniteSets, TLC

\* ------------------------------------------------------------------ bounds

\* Longest flow handed to execute.
MaxSteps == 3

\* ------------------------------------------------------- input alphabets

\* Instructions a step may carry: one that references the previous output
\* ("this") and one that does not.
Instructions == {"Summarize this", "List 3 facts"}

\* Values of the initialInput argument of execute.
InitialInputs == {"", "seed"}

\* Contents a provider may answer with (response.content), the empty
\* content included.
Contents == {"", "Lorem", "ipsum"}

\* Messages of the errors a provider call may fail with.
ErrorMessages == {"boom"}

\* ------------------------------------------------------------------ state

VARIABLES
    flow,            \* the ParsedFlow argument: its steps
    initialInput,    \* the initialInput argument
    hasProgress,     \* whether an onProgress observer was passed
    hasStepStream,   \* whether an onStepStream observer was passed
    pc,              \* position of the execute call
    i,               \* the loop variable of execute
    execution,       \* the FlowExecution object
    previousOutput,  \* the local previousOutput
    notified,        \* what the onProgress observer has been handed, in order
    calls,           \* the llmClient.chat calls made, in order
    thrown           \* the error execute rejected with

vars == <<flow, initialInput, hasProgress, hasStepStream, pc, i, execution,
          previousOutput, notified, calls, thrown>>

\* formatStepPrompt called on its own.
VARIABLES
    fmtIn,           \* its arguments: step and previousOutput
    fmtOut           \* what it returned: <<>> before the call, <<prompt>> after

formatVars == <<fmtIn, fmtOut>>

\* One chat call on a provider client (ClaudeClient or OpenAIClient).
VARIABLES
    provider,        \* the client's provider id: "claude" or "openai"
    apiKey,          \* the client's apiKey
    request,         \* the ChatRequest argument: messages and stream
    onStream,        \* whether an onStream observer was passed
    cpc,             \* position of the chat call
    fetches,         \* bodies of the fetch requests issued, in order
    response,        \* <<>> before fetch resolves, <<[status]>> after
    sent,            \* lines the provider has put on the stream, in order
    carry,           \* whether the last read ended inside a line
    reader,          \* the body reader: "none", "locked" or "released"
    fullContent,     \* the local fullContent of handleStream
    chunks,          \* what the onStream observer has been handed, in order
    outcome          \* <<>> while pending, then the ChatResponse or the error

clientVars == <<provider, apiKey, request, onStream, cpc, fetches, response,
                sent, carry, reader, fullContent, chunks, outcome>>

\* validateApiKey calls on a provider client.
VARIABLES
    vclient,         \* the client object: provider, apiKey, model, baseUrl
    vpc,             \* position of the validateApiKey call
    probes,          \* the probe requests issued, in order, with their answers
    verdicts         \* what the calls returned, in order

validateVars == <<vclient, vpc, probes, verdicts>>

\* parseFlowDescription and validateFlow called on their own.
VARIABLES
    parseIn,         \* the argument: a description, or a ParsedFlow
    parseOut         \* what was returned: <<>> before the call, <<result>> after

parserVars == <<parseIn, parseOut>>

\* FlowsUI: the execute button of the flows panel.
VARIABLES
    ui,              \* the panel: client installed, the two inputs, the message shown
    uipc             \* position of handleExecuteFlow

flowsUIVars == <<ui, uipc>>

\* Two execute calls under way at once, on executors whose client may be
\* replaced.
VARIABLES
    llmClient,       \* the llmClient field of each FlowExecutor
    uiExecutor,      \* the executor the flows panel holds
    runs             \* per execute call: its executor, arguments and locals

runsVars == <<llmClient, uiExecutor, runs>>

\* The serverless proxy handling one HTTP request.
VARIABLES
    proxyReq,  \* req: its method and its body
    env,       \* process.env: whether each provider's API key is configured
    ppc,       \* where the handler stands
    proxyRes,  \* res: the status and the body sent, once sent
    upstream   \* the fetch calls made to providers and how they stand

proxyVars == <<proxyReq, env, ppc, proxyRes, upstream>>

\* The clock Date.now() reads.
VARIABLES
    now   \* milliseconds since the execute call followed began

clockVars == <<now>>

\* The application (src/main.ts): the settings dialog (src/ui/config.ts), the
\* browser's localStorage behind the storage wrapper (src/utils/storage.ts),
\* and the clients handed to the chat panel and to the flows panel.
VARIABLES
    localStorage,  \* the browser's store: key |-> value, for the keys present
    config,        \* ConfigUI.config
    chatUI,        \* ChatUI: llmClient and provider
    flowsUI,       \* FlowsUI: llmClient and executor (the client it was constructed with)
    appLog         \* what the user did and which client served each chat and each execution

appVars == <<localStorage, config, chatUI, flowsUI, appLog>>

\* What an execute call leaves alone.
outsideExecutor ==
    <<formatVars, clientVars, validateVars, parserVars, flowsUIVars, runsVars, proxyVars, clockVars,
      appVars>>

\* What a chat call leaves alone.
outsideClient ==
    <<vars, formatVars, validateVars, parserVars, flowsUIVars, runsVars, proxyVars, clockVars,
      appVars>>

\* What a formatStepPrompt call leaves alone.
outsideFormat ==
    <<vars, clientVars, validateVars, parserVars, flowsUIVars, runsVars, proxyVars, clockVars,
      appVars>>

\* What a validateApiKey call leaves alone.
outsideValidate ==
    <<vars, formatVars, clientVars, parserVars, flowsUIVars, runsVars, proxyVars, clockVars,
      appVars>>

\* What a parseFlowDescription or validateFlow call leaves alone.
outsideParser ==
    <<vars, formatVars, clientVars, validateVars, flowsUIVars, runsVars, proxyVars, clockVars,
      appVars>>

\* What handleExecuteFlow leaves alone, the execute call it makes apart.
outsideFlowsUI ==
    <<formatVars, clientVars, validateVars, parserVars, runsVars, proxyVars, clockVars,
      appVars>>

\* What concurrent execute calls and client replacements leave alone.
outsideRuns ==
    <<vars, formatVars, clientVars, validateVars, parserVars, flowsUIVars, proxyVars, clockVars,
      appVars>>

\* What the proxy handler leaves alone.
outsideProxy ==
    <<vars, formatVars, clientVars, validateVars, parserVars, flowsUIVars, runsVars, clockVars,
      appVars>>

\* What the passing of time leaves alone.
outsideClock ==
    <<vars, formatVars, clientVars, validateVars, parserVars, flowsUIVars, runsVars, proxyVars,
      appVars>>

\* What the settings dialog and the panels' handlers leave alone.
outsideApp ==
    <<vars, formatVars, clientVars, validateVars, parserVars,
      flowsUIVars, runsVars, proxyVars, clockVars>>

allVars ==
    <<vars, formatVars, clientVars, validateVars, parserVars, flowsUIVars, runsVars, proxyVars, clockVars,
      appVars>>

\* ------------------------------------------------------ parser.ts: strings

LowerLetters == "abcdefghijklmnopqrstuvwxyz"
UpperLetters == "ABCDEFGHIJKLMNOPQRSTUVWXYZ"
Digits == "0123456789"

CharAt(s, p) == SubSeq(s, p, p)

CharsOf(s) == {CharAt(s, p) : p \in 1..Len(s)}

WordChars ==
    CharsOf(LowerLetters) \cup CharsOf(UpperLetters) \cup CharsOf(Digits) \cup {"_"}

\* \w of the regular expression: [A-Za-z0-9_]
IsWordChar(c) == c \in WordChars

UpperChars == CharsOf(UpperLetters)

\* The i flag: letters compare without case.
LowerChar(c) ==
    IF c \in UpperChars
    THEN CharAt(LowerLetters, CHOOSE p \in 1..26 : CharAt(UpperLetters, p) = c)
    ELSE c

RECURSIVE LowerCase(_)
LowerCase(s) ==
    IF Len(s) = 0 THEN ""
    ELSE LowerChar(CharAt(s, 1)) \o LowerCase(SubSeq(s, 2, Len(s)))

\* Faulty variant of IsWordBoundary: the \b anchors are missing.
NoWordBoundary(s, p) == TRUE

\* \b: a position between a word character and a non-word character (or
\* an end of the string). p is the index of the character after the
\* position.
IsWordBoundary(s, p) ==
    LET before == p > 1 /\ IsWordChar(CharAt(s, p - 1))
        after  == p <= Len(s) /\ IsWordChar(CharAt(s, p))
    IN  before # after

\* The alternatives of (this|that|it|the (result|output|response|text|content)).
ReferenceWords ==
    {"this", "that", "it", "the result", "the output", "the response",
     "the text", "the content"}

\* /\b(this|that|it|the (result|output|response|text|content))\b/i.test(prompt)
ReferencesOutput(prompt) ==
    \E w \in ReferenceWords :
        \E p \in 1..(Len(prompt) - Len(w) + 1) :
            /\ LowerCase(SubSeq(prompt, p, p + Len(w) - 1)) = w
            /\ IsWordBoundary(prompt, p)
            /\ IsWordBoundary(prompt, p + Len(w))

\* Faulty variant of formatStepPrompt: an empty previous output is worked
\* in like any other.
formatStepPromptLabelsEmpty(step, prev) ==
    IF step.usesPreviousOutput
    THEN IF ReferencesOutput(step.instruction)
         THEN "Given this content:\n\n" \o prev \o "\n\n" \o step.instruction
         ELSE step.instruction \o "\n\nContent to work with:\n" \o prev
    ELSE step.instruction

\* Faulty variant of formatStepPrompt: the previous output is worked in
\* whether or not the step asks for it.
formatStepPromptAnyStep(step, prev) ==
    IF prev # ""
    THEN IF ReferencesOutput(step.instruction)
         THEN "Given this content:\n\n" \o prev \o "\n\n" \o step.instruction
         ELSE step.instruction \o "\n\nContent to work with:\n" \o prev
    ELSE step.instruction

\* formatStepPrompt(step, previousOutput); `step.usesPreviousOutput &&
\* previousOutput` is false for the empty string.
formatStepPrompt(step, prev) ==
    IF step.usesPreviousOutput /\ prev # ""
    THEN IF ReferencesOutput(step.instruction)
         THEN "Given this content:\n\n" \o prev \o "\n\n" \o step.instruction
         ELSE step.instruction \o "\n\nContent to work with:\n" \o prev
    ELSE step.instruction

\* Whether t occurs in s as a contiguous substring.
Contains(s, t) ==
    \E p \in 1..(Len(s) - Len(t) + 1) : SubSeq(s, p, p + Len(t) - 1) = t

\* ------------------------------------------------------------- executor.ts

StepStatus == {"pending", "running", "completed", "error"}

\* Values a provider call may reject with: an Error carrying a message, or a
\* thrown value that is no Error.
Errors ==
    [isError : {TRUE}, message : ErrorMessages] \cup
    {[isError |-> FALSE, message |-> "not an Error"]}

\* FlowStep records in the order given; order is the 1-based position.
FlowsOfLength(n) ==
    {[j \in 1..n |-> [order |-> j,
                      instruction |-> f[j][1],
                      usesPreviousOutput |-> f[j][2]]] :
        f \in [1..n -> Instructions \X BOOLEAN]}

Flows == UNION {FlowsOfLength(n) : n \in 0..MaxSteps}

\* The FlowExecution before execute has created one.
NoExecution ==
    [steps |-> <<>>, status |-> "none", currentStepIndex |-> 0,
     startTime |-> <<>>, endTime |-> <<>>]

\* flow.steps.map(step => ({ step, status: 'pending' })): the optional
\* fields output and error are absent (<<>>) until assigned (<<value>>).
NewStepExecution(step) ==
    [step |-> step, status |-> "pending", output |-> <<>>, error |-> <<>>,
     startTime |-> <<>>, endTime |-> <<>>]

NewExecution(steps) ==
    [steps |-> [j \in 1..Len(steps) |-> NewStepExecution(steps[j])],
     status |-> "running",
     currentStepIndex |-> 0,
     startTime |-> <<now>>,
     endTime |-> <<>>]

\* What onProgress({ ...execution }) hands the observer: a copy of the
\* top-level fields, and the steps as they are when the observer runs.
Delivered(e) ==
    [status |-> e.status, currentStepIndex |-> e.currentStepIndex,
     startTime |-> e.startTime, endTime |-> e.endTime, steps |-> e.steps]

\* if (onProgress) { onProgress({ ...execution }); }
\* The observer runs synchronously and returns: the observer the program
\* passes, FlowsUI.updateProgress, rebuilds DOM nodes and throws nothing.
Notify(log, e) == IF hasProgress THEN Append(log, Delivered(e)) ELSE log

\* Faulty variant of MarkRunning: currentStepIndex is not assigned.
MarkRunningKeepIndex(e, k) ==
    [e EXCEPT !.steps[k + 1].status = "running",
              !.steps[k + 1].startTime = <<now>>]

\* Faulty variant of MarkRunning: the start time is not recorded.
MarkRunningNoStart(e, k) ==
    [e EXCEPT !.steps[k + 1].status = "running", !.currentStepIndex = k]

\* stepExecution.status = 'running'; stepExecution.startTime = Date.now();
\* execution.currentStepIndex = i
MarkRunning(e, k) ==
    [e EXCEPT !.steps[k + 1].status = "running",
              !.steps[k + 1].startTime = <<now>>,
              !.currentStepIndex = k]

\* Faulty variant of MarkCompleted: the status assignment is missing.
MarkCompletedOutputOnly(e, k, content) ==
    [e EXCEPT !.steps[k + 1].output = <<content>>,
              !.steps[k + 1].endTime = <<now>>]

\* Faulty variant of MarkCompleted: the flow is marked completed with the
\* step.
MarkCompletedAndFlow(e, k, content) ==
    [e EXCEPT !.steps[k + 1].output = <<content>>,
              !.steps[k + 1].status = "completed",
              !.steps[k + 1].endTime = <<now>>,
              !.status = "completed"]

\* stepExecution.output = response.content; stepExecution.status =
\* 'completed'; stepExecution.endTime = Date.now()
MarkCompleted(e, k, content) ==
    [e EXCEPT !.steps[k + 1].output = <<content>>,
              !.steps[k + 1].status = "completed",
              !.steps[k + 1].endTime = <<now>>]

\* error instanceof Error ? error.message : 'Unknown error'
ErrorText(err) == IF err.isError THEN err.message ELSE "Unknown error"

\* Faulty variant of MarkError: the flow status is left as it was.
MarkErrorStepOnly(e, k, err) ==
    [e EXCEPT !.steps[k + 1].status = "error",
              !.steps[k + 1].error = <<ErrorText(err)>>,
              !.steps[k + 1].endTime = <<now>>,
              !.endTime = <<now>>]

\* Faulty variant of MarkError: every step that has not completed is put in
\* error, the ones not yet started included.
MarkErrorAllRemaining(e, k, err) ==
    [e EXCEPT !.steps = [j \in 1..Len(e.steps) |->
                            IF j >= k + 1
                            THEN [e.steps[j] EXCEPT !.status = "error",
                                                    !.error = <<ErrorText(err)>>,
                                                    !.endTime = <<now>>]
                            ELSE e.steps[j]],
              !.status = "error",
              !.endTime = <<now>>]

\* stepExecution.status = 'error'; stepExecution.error = ...;
\* stepExecution.endTime = Date.now(); execution.status = 'error';
\* execution.endTime = Date.now()
MarkError(e, k, err) ==
    [e EXCEPT !.steps[k + 1].status = "error",
              !.steps[k + 1].error = <<ErrorText(err)>>,
              !.steps[k + 1].endTime = <<now>>,
              !.status = "error",
              !.endTime = <<now>>]

\* execution.status = 'completed'; execution.endTime = Date.now()
MarkFlowCompleted(e) == [e EXCEPT !.status = "completed", !.endTime = <<now>>]

\* Faulty variant of NextPreviousOutput: the assignment is missing.
KeepPreviousOutput(prev, content) == prev

\* previousOutput = response.content
NextPreviousOutput(prev, content) == content

\* Faulty variant of ChatRequest: streaming is always requested.
ChatRequestAlwaysStream(k, prompt) ==
    [step |-> k,
     messages |-> <<[role |-> "user", content |-> prompt]>>,
     stream |-> TRUE,
     onStream |-> hasStepStream,
     state |-> "inflight",
     content |-> <<>>,
     error |-> <<>>]

\* The request of one llmClient.chat call ({ messages: [{ role: 'user',
\* content: prompt }], stream: !!onStepStream }, onStepStream) and how the
\* call stands: in flight, resolved with a content, rejected with an error.
ChatRequest(k, prompt) ==
    [step |-> k,
     messages |-> <<[role |-> "user", content |-> prompt]>>,
     stream |-> hasStepStream,
     onStream |-> hasStepStream,
     state |-> "inflight",
     content |-> <<>>,
     error |-> <<>>]

Settle(log, state, content) ==
    [log EXCEPT ![Len(log)].state = state, ![Len(log)].content = content]

\* The awaited call rejects with err.
Fail(log, err) ==
    [log EXCEPT ![Len(log)].state = "rejected", ![Len(log)].error = <<err>>]

\* Faulty variant of InLoop: the loop stops one step short.
InLoopOffByOne(k, steps) == k < Len(steps) - 1

\* The loop test i < flow.steps.length.
InLoop(k, steps) == k < Len(steps)

\* No call of formatStepPrompt on its own is under way.
FormatIdle ==
    /\ fmtIn = [step |-> [order |-> 1, instruction |-> "", usesPreviousOutput |-> FALSE],
                previousOutput |-> ""]
    /\ fmtOut = <<"">>

\* No chat call on a provider client is under way.
ClientIdle ==
    /\ provider = "claude"
    /\ apiKey = ""
    /\ request = [messages |-> <<>>, stream |-> "unset"]
    /\ onStream = FALSE
    /\ cpc = "idle"
    /\ fetches = <<>>
    /\ response = <<>>
    /\ sent = <<>>
    /\ carry = FALSE
    /\ reader = "none"
    /\ fullContent = ""
    /\ chunks = <<>>
    /\ outcome = <<>>

\* No validateApiKey call is under way.
ValidateIdle ==
    /\ vclient = [provider |-> "claude", apiKey |-> "", model |-> "", baseUrl |-> ""]
    /\ vpc = "idle"
    /\ probes = <<>>
    /\ verdicts = <<>>

\* No parseFlowDescription or validateFlow call on its own is under way.
ParserIdle ==
    /\ parseIn = [kind |-> "none"]
    /\ parseOut = <<>>

\* The flows panel is not in use.
FlowsUIIdle ==
    /\ ui = [hasClient |-> FALSE, description |-> "", initialInput |-> "",
             message |-> <<>>, progressShown |-> FALSE]
    /\ uipc = "idle"

\* No concurrent execute calls are followed.
RunsIdle ==
    /\ llmClient = <<>>
    /\ uiExecutor = "none"
    /\ runs = <<>>

\* No proxy request is followed.
ProxyIdle ==
    /\ proxyReq = [method |-> "none"]
    /\ env = <<>>
    /\ ppc = "idle"
    /\ proxyRes = <<>>
    /\ upstream = <<>>

\* No time has passed.
ClockIdle ==
    /\ now = 0

\* No application is open.
AppIdle ==
    /\ localStorage = <<>>
    /\ config = <<>>
    /\ chatUI = <<>>
    /\ flowsUI = <<>>
    /\ appLog = <<>>

Init ==
    /\ FormatIdle
    /\ ClientIdle
    /\ ValidateIdle
    /\ ParserIdle
    /\ FlowsUIIdle
    /\ RunsIdle
    /\ ProxyIdle
    /\ ClockIdle
    /\ AppIdle
    /\ flow \in Flows
    /\ initialInput \in InitialInputs
    /\ hasProgress \in BOOLEAN
    /\ hasStepStream \in BOOLEAN
    /\ pc = "init"
    /\ i = 0
    /\ execution = NoExecution
    /\ previousOutput = ""
    /\ notified = <<>>
    /\ calls = <<>>
    /\ thrown = <<>>

\* Faulty variant of Execute: a flow without steps is refused.
ExecuteRefusesEmpty ==
    /\ pc = "init"
    /\ IF Len(flow) = 0
       THEN /\ thrown' = <<[isError |-> TRUE,
                            message |-> "Flow must contain at least one step"]>>
            /\ pc' = "rejected"
            /\ UNCHANGED <<execution, notified, previousOutput, i>>
       ELSE /\ execution' = NewExecution(flow)
            /\ notified' = Notify(notified, execution')
            /\ previousOutput' = initialInput
            /\ i' = 0
            /\ pc' = "loop"
            /\ UNCHANGED thrown
    /\ UNCHANGED <<flow, initialInput, hasProgress, hasStepStream, calls>>
    /\ UNCHANGED outsideExecutor

\* execute is called: lines 39-54, up to the loop.
Execute ==
    /\ pc = "init"
    /\ execution' = NewExecution(flow)
    /\ notified' = Notify(notified, execution')
    /\ previousOutput' = initialInput
    /\ i' = 0
    /\ pc' = "loop"
    /\ UNCHANGED <<flow, initialInput, hasProgress, hasStepStream, calls, thrown>>
    /\ UNCHANGED outsideExecutor

\* Faulty variant of StepStart: the 'running' transition is not notified.
StepStartSilent ==
    /\ pc = "loop"
    /\ InLoop(i, flow)
    /\ execution' = MarkRunning(execution, i)
    /\ pc' = "call"
    /\ UNCHANGED <<flow, initialInput, hasProgress, hasStepStream, i,
                   previousOutput, notified, calls, thrown>>
    /\ UNCHANGED outsideExecutor

\* One pass of the loop test with i < flow.steps.length: lines 56-65.
StepStart ==
    /\ pc = "loop"
    /\ InLoop(i, flow)
    /\ execution' = MarkRunning(execution, i)
    /\ notified' = Notify(notified, execution')
    /\ pc' = "call"
    /\ UNCHANGED <<flow, initialInput, hasProgress, hasStepStream, i,
                   previousOutput, calls, thrown>>
    /\ UNCHANGED outsideExecutor

\* Faulty variant of ChatCall: the call is not awaited, and the loop goes on
\* to the next step while it is in flight.
ChatCallNotAwaited ==
    /\ pc = "call"
    /\ calls' = Append(calls,
                       ChatRequest(i, formatStepPrompt(execution.steps[i + 1].step,
                                                       previousOutput)))
    /\ i' = i + 1
    /\ pc' = "loop"
    /\ UNCHANGED <<flow, initialInput, hasProgress, hasStepStream, execution,
                   previousOutput, notified, thrown>>
    /\ UNCHANGED outsideExecutor

\* The prompt is built and chat is called: lines 69-78.
ChatCall ==
    /\ pc = "call"
    /\ calls' = Append(calls,
                       ChatRequest(i, formatStepPrompt(execution.steps[i + 1].step,
                                                       previousOutput)))
    /\ pc' = "await"
    /\ UNCHANGED <<flow, initialInput, hasProgress, hasStepStream, i, execution,
                   previousOutput, notified, thrown>>
    /\ UNCHANGED outsideExecutor

\* The awaited call resolves with a response: lines 80-90, and i++.
ChatResolve ==
    /\ pc = "await"
    /\ \E content \in Contents :
          /\ calls' = Settle(calls, "resolved", <<content>>)
          /\ execution' = MarkCompleted(execution, i, content)
          /\ previousOutput' = NextPreviousOutput(previousOutput, content)
          /\ notified' = Notify(notified, execution')
    /\ i' = i + 1
    /\ pc' = "loop"
    /\ UNCHANGED <<flow, initialInput, hasProgress, hasStepStream, thrown>>
    /\ UNCHANGED outsideExecutor

\* Faulty variant of ChatReject: the catch block does not notify.
ChatRejectSilent ==
    /\ pc = "await"
    /\ \E err \in Errors :
          /\ calls' = Fail(calls, err)
          /\ execution' = MarkError(execution, i, err)
          /\ thrown' = <<err>>
    /\ pc' = "rejected"
    /\ UNCHANGED <<flow, initialInput, hasProgress, hasStepStream, i,
                   previousOutput, notified>>
    /\ UNCHANGED outsideExecutor

\* Faulty variant of ChatReject: the catch block does not rethrow, and the
\* loop goes on with the next step.
ChatRejectContinue ==
    /\ pc = "await"
    /\ \E err \in Errors :
          /\ calls' = Fail(calls, err)
          /\ execution' = MarkError(execution, i, err)
          /\ notified' = Notify(notified, execution')
    /\ i' = i + 1
    /\ pc' = "loop"
    /\ UNCHANGED <<flow, initialInput, hasProgress, hasStepStream,
                   previousOutput, thrown>>
    /\ UNCHANGED outsideExecutor

\* Faulty variant of ChatReject: the catch block throws a new error that
\* wraps the provider's.
ChatRejectWrapped ==
    /\ pc = "await"
    /\ \E err \in Errors :
          /\ calls' = Fail(calls, err)
          /\ execution' = MarkError(execution, i, err)
          /\ notified' = Notify(notified, execution')
          /\ thrown' = <<[isError |-> TRUE,
                          message |-> "Flow failed: " \o ErrorText(err)]>>
    /\ pc' = "rejected"
    /\ UNCHANGED <<flow, initialInput, hasProgress, hasStepStream, i, previousOutput>>
    /\ UNCHANGED outsideExecutor

\* Faulty variant of ChatReject: the wait is given up while the call is
\* still in flight.
ChatRejectOnTimeout ==
    /\ pc = "await"
    /\ \E err \in Errors :
          /\ execution' = MarkError(execution, i, err)
          /\ notified' = Notify(notified, execution')
          /\ thrown' = <<err>>
    /\ pc' = "rejected"
    /\ UNCHANGED <<flow, initialInput, hasProgress, hasStepStream, i,
                   previousOutput, calls>>
    /\ UNCHANGED outsideExecutor

\* The awaited call rejects: the catch block, lines 91-104.
ChatReject ==
    /\ pc = "await"
    /\ \E err \in Errors :
          /\ calls' = Fail(calls, err)
          /\ execution' = MarkError(execution, i, err)
          /\ notified' = Notify(notified, execution')
          /\ thrown' = <<err>>
    /\ pc' = "rejected"
    /\ UNCHANGED <<flow, initialInput, hasProgress, hasStepStream, i, previousOutput>>
    /\ UNCHANGED outsideExecutor

\* The loop test fails: lines 107-115.
Finish ==
    /\ pc = "loop"
    /\ ~InLoop(i, flow)
    /\ execution' = MarkFlowCompleted(execution)
    /\ notified' = Notify(notified, execution')
    /\ pc' = "returned"
    /\ UNCHANGED <<flow, initialInput, hasProgress, hasStepStream, i,
                   previousOutput, calls, thrown>>
    /\ UNCHANGED outsideExecutor

Next ==
    \/ Execute
    \/ StepStart
    \/ ChatCall
    \/ ChatResolve
    \/ ChatReject
    \/ Finish

Spec == Init /\ [][Next]_allVars

\* No execute call is under way.
ExecutorIdle ==
    /\ flow = <<>>
    /\ initialInput = ""
    /\ hasProgress = FALSE
    /\ hasStepStream = FALSE
    /\ pc = "idle"
    /\ i = 0
    /\ execution = NoExecution
    /\ previousOutput = ""
    /\ notified = <<>>
    /\ calls = <<>>
    /\ thrown = <<>>

\* ---------------------------------- parser.ts: formatStepPrompt on its own

\* Longest previous output handed to formatStepPrompt.
MaxPreviousLen == 2

\* Instructions with and without a reference word, with a reference word
\* inside a longer word, in capitals, next to punctuation and to '_', and
\* with the two-word forms well and badly spaced.
FormatInstructions ==
    {"Summarize this", "List 3 facts", "edit item", "fix IT now", "THE Output.",
     "the  output", "the outputs", "this_one", "do-that", "Use the\nresult",
     "shorten the text", "mother content", "That", ""}

\* Previous outputs: the strings over {"a", "it"} of up to MaxPreviousLen
\* pieces, the empty one included.
RECURSIVE PreviousOutputs(_)
PreviousOutputs(n) ==
    IF n = 0 THEN {""}
    ELSE PreviousOutputs(n - 1) \cup
         {t \o c : t \in PreviousOutputs(n - 1), c \in {"a", "it "}}

InitFormat ==
    /\ ExecutorIdle
    /\ ClientIdle
    /\ ValidateIdle
    /\ ParserIdle
    /\ FlowsUIIdle
    /\ RunsIdle
    /\ ProxyIdle
    /\ ClockIdle
    /\ AppIdle
    /\ fmtIn \in [step : [order : {1}, instruction : FormatInstructions,
                          usesPreviousOutput : BOOLEAN],
                  previousOutput : PreviousOutputs(MaxPreviousLen)]
    /\ fmtOut = <<>>

\* formatStepPrompt(step, previousOutput) is called and returns.
FormatCall ==
    /\ fmtOut = <<>>
    /\ fmtOut' = <<formatStepPrompt(fmtIn.step, fmtIn.previousOutput)>>
    /\ UNCHANGED <<fmtIn, outsideFormat>>

NextFormat == FormatCall

SpecFormat == InitFormat /\ [][NextFormat]_allVars

\* ------------------------------ llm/claude.ts, llm/openai.ts: one chat call

\* Most lines a provider puts on one response stream.
MaxLines == 3

\* Most lines, whole or in part, that one read of the stream delivers.
MaxChunkLines == 2

\* Most messages of a ChatRequest.
MaxMessages == 3

\* max_tokens sent when the request sets no maxTokens.
DefaultMaxTokens == 2000

\* temperature sent when the request sets no temperature.
DefaultTemperature == "0.7"

Providers == {"claude", "openai"}

\* An empty and a non-empty credential.
ApiKeys == {"", "sk-1"}

\* The model a client is constructed with by default.
DefaultModel(prov) ==
    IF prov = "claude" THEN "claude-3-5-sonnet-20240620" ELSE "gpt-4"

Roles == {"system", "user", "assistant"}

\* Message lists of up to n messages; the content of a message names its
\* position, so that a reordering shows.
MessageLists(n) ==
    UNION {[1..len -> Roles] : len \in 0..n}

MessagesOf(roles) ==
    [j \in 1..Len(roles) |-> [role |-> roles[j], content |-> "m" \o ToString(j)]]

\* HTTP statuses a provider answers with; response.ok is the 2xx range.
Statuses == {200, 400, 401, 500}

Ok(status) == status >= 200 /\ status <= 299

\* new LLMError(message, provider, statusCode?): statusCode is <<>> when the
\* argument is left out.
LLMError(message, prov, statusCode) ==
    [kind |-> "LLMError", message |-> message, provider |-> prov,
     statusCode |-> statusCode]

\* The catch clause of chat: an LLMError is rethrown as it is, anything else
\* is wrapped in an LLMError without statusCode.
CaughtError(prov, err) ==
    IF err.kind = "LLMError" THEN err
    ELSE LLMError(IF err.kind = "Error" THEN err.message ELSE "Unknown error occurred",
                  prov, <<>>)

\* An Error that is not an LLMError (TypeError, SyntaxError, ...).
PlainError(message) == [kind |-> "Error", message |-> message]

\* const { ..., stream = !!onStream } = request
StreamRequested(req, hasObserver) ==
    IF req.stream = "unset" THEN hasObserver ELSE req.stream = "true"

\* Faulty variant of ClaudeBody: the last system message is honoured.
ClaudeBodyLastSystem(req, hasObserver) ==
    LET systemMessages == SelectSeq(req.messages, LAMBDA m : m.role = "system")
        conversationMessages == SelectSeq(req.messages, LAMBDA m : m.role # "system")
    IN  [model |-> DefaultModel("claude"),
         messages |-> [j \in 1..Len(conversationMessages) |->
                          [role |-> IF conversationMessages[j].role = "user"
                                    THEN "user" ELSE "assistant",
                           content |-> conversationMessages[j].content]],
         system |-> IF Len(systemMessages) > 0
                    THEN <<systemMessages[Len(systemMessages)].content>> ELSE <<>>,
         temperature |-> DefaultTemperature,
         max_tokens |-> DefaultMaxTokens,
         stream |-> StreamRequested(req, hasObserver)]

\* The request body ClaudeClient.chat builds; system is <<>> when undefined
\* (JSON.stringify leaves the field out).
ClaudeBody(req, hasObserver) ==
    LET systemMessages == SelectSeq(req.messages, LAMBDA m : m.role = "system")
        conversationMessages == SelectSeq(req.messages, LAMBDA m : m.role # "system")
    IN  [model |-> DefaultModel("claude"),
         messages |-> [j \in 1..Len(conversationMessages) |->
                          [role |-> IF conversationMessages[j].role = "user"
                                    THEN "user" ELSE "assistant",
                           content |-> conversationMessages[j].content]],
         system |-> IF Len(systemMessages) > 0
                    THEN <<systemMessages[1].content>> ELSE <<>>,
         temperature |-> DefaultTemperature,
         max_tokens |-> DefaultMaxTokens,
         stream |-> StreamRequested(req, hasObserver)]

\* The request body OpenAIClient.chat builds.
OpenAIBody(req, hasObserver) ==
    [model |-> DefaultModel("openai"),
     messages |-> req.messages,
     temperature |-> DefaultTemperature,
     max_tokens |-> DefaultMaxTokens,
     stream |-> StreamRequested(req, hasObserver)]

RequestBody(prov, req, hasObserver) ==
    IF prov = "claude" THEN ClaudeBody(req, hasObserver)
    ELSE OpenAIBody(req, hasObserver)

\* The message of the error thrown for a missing credential.
KeyRequiredMessage(prov) ==
    IF prov = "claude" THEN "Anthropic API key is required"
    ELSE "OpenAI API key is required"

\* The message used when the error body names none.
RequestFailedMessage(prov) ==
    IF prov = "claude" THEN "Anthropic API request failed"
    ELSE "OpenAI API request failed"

\* chat settles: rejects with err as the catch clause passes it on.
ChatThrows(err) ==
    /\ cpc' = "rejected"
    /\ outcome' = <<CaughtError(provider, err)>>

\* Faulty variant of Chat: the credential is not looked at.
ChatNoKeyCheck ==
    /\ cpc = "start"
    /\ cpc' = "fetching"
    /\ fetches' = Append(fetches, RequestBody(provider, request, onStream))
    /\ UNCHANGED <<provider, apiKey, request, onStream, response, sent, carry,
                   reader, fullContent, chunks, outcome>>
    /\ UNCHANGED outsideClient

\* chat is called: without a credential it throws before the try block,
\* otherwise it builds the body and issues the fetch.
Chat ==
    /\ cpc = "start"
    /\ IF apiKey = ""
       THEN /\ cpc' = "rejected"
            /\ outcome' = <<LLMError(KeyRequiredMessage(provider), provider, <<>>)>>
            /\ UNCHANGED fetches
       ELSE /\ cpc' = "fetching"
            /\ fetches' = Append(fetches, RequestBody(provider, request, onStream))
            /\ UNCHANGED outcome
    /\ UNCHANGED <<provider, apiKey, request, onStream, response, sent, carry,
                   reader, fullContent, chunks>>
    /\ UNCHANGED outsideClient

\* fetch rejects (the transport fails).
FetchReject ==
    /\ cpc = "fetching"
    /\ ChatThrows(PlainError("Failed to fetch"))
    /\ UNCHANGED <<provider, apiKey, request, onStream, fetches, response, sent,
                   carry, reader, fullContent, chunks>>
    /\ UNCHANGED outsideClient

\* fetch resolves with a non-2xx response: chat awaits response.json().
FetchResolveNotOk ==
    /\ cpc = "fetching"
    /\ \E status \in Statuses, readable \in BOOLEAN :
          /\ ~Ok(status)
          /\ response' = <<[status |-> status, readable |-> readable]>>
    /\ cpc' = "errorBody"
    /\ UNCHANGED <<provider, apiKey, request, onStream, fetches, sent, carry,
                   reader, fullContent, chunks, outcome>>
    /\ UNCHANGED outsideClient

\* What response.json() of a non-2xx response may give: a body that is not
\* JSON, the JSON value null, an object without error.message, an object
\* with it.
ErrorBodies ==
    {[kind |-> "unparsable"], [kind |-> "null"], [kind |-> "object"],
     [kind |-> "message", message |-> "invalid x-api-key"]}

\* await response.json().catch(() => ({error: {message: 'Unknown error'}}))
\* followed by the throw of the LLMError carrying response.status; reading
\* error.error of the value null is a TypeError raised before that throw.
ErrorOfBody(prov, status, body) ==
    CASE body.kind = "unparsable" -> LLMError("Unknown error", prov, <<status>>)
      [] body.kind = "null" ->
            PlainError("Cannot read properties of null (reading 'error')")
      [] body.kind = "object" -> LLMError(RequestFailedMessage(prov), prov, <<status>>)
      [] body.kind = "message" -> LLMError(body.message, prov, <<status>>)

\* The body of the non-2xx response has been read: chat rejects.
ErrorBodySettle ==
    /\ cpc = "errorBody"
    /\ \E body \in ErrorBodies :
          ChatThrows(ErrorOfBody(provider, response[1].status, body))
    /\ UNCHANGED <<provider, apiKey, request, onStream, fetches, response, sent,
                   carry, reader, fullContent, chunks>>
    /\ UNCHANGED outsideClient

\* Faulty variant of UsesStreamHandler: a supplied observer is enough.
UsesStreamHandlerObserverOnly == onStream

\* if (stream && onStream)
UsesStreamHandler == StreamRequested(request, onStream) /\ onStream

\* fetch resolves with a 2xx response and handleStream is entered: without
\* a body there is no reader and it throws, otherwise it takes the reader
\* and awaits the first read.
FetchResolveStream ==
    /\ cpc = "fetching"
    /\ UsesStreamHandler
    /\ \E status \in Statuses, readable \in BOOLEAN :
          /\ Ok(status)
          /\ response' = <<[status |-> status, readable |-> readable]>>
          /\ IF readable
             THEN /\ reader' = "locked"
                  /\ cpc' = "reading"
                  /\ UNCHANGED outcome
             ELSE /\ ChatThrows(LLMError("Response body is not readable", provider, <<>>))
                  /\ UNCHANGED reader
    /\ UNCHANGED <<provider, apiKey, request, onStream, fetches, sent, carry,
                   fullContent, chunks>>
    /\ UNCHANGED outsideClient

\* fetch resolves with a 2xx response and handleNonStream is entered: it
\* awaits response.json().
FetchResolveNonStream ==
    /\ cpc = "fetching"
    /\ ~UsesStreamHandler
    /\ \E status \in Statuses, readable \in BOOLEAN :
          /\ Ok(status)
          /\ response' = <<[status |-> status, readable |-> readable]>>
    /\ cpc' = "body"
    /\ UNCHANGED <<provider, apiKey, request, onStream, fetches, sent, carry,
                   reader, fullContent, chunks, outcome>>
    /\ UNCHANGED outsideClient

\* What response.json() of a 2xx response may give: a body that is not JSON,
\* the JSON value null, an object without content (Claude) or choices
\* (OpenAI), an object with that list empty, an object with a text in it.
Bodies ==
    {[kind |-> "unparsable"], [kind |-> "null"], [kind |-> "object"],
     [kind |-> "empty"]}
    \cup {[kind |-> "text", text |-> t] : t \in {"", "Hello"}}

\* The usage handleNonStream reports for a body without usage.
NoUsage == [promptTokens |-> 0, completionTokens |-> 0, totalTokens |-> 0]

ChatResponse(content, prov, usage) ==
    [kind |-> "ChatResponse", content |-> content, provider |-> prov,
     model |-> DefaultModel(prov), usage |-> usage]

\* handleNonStream once response.json() has settled: the ChatResponse it
\* returns or the error it throws. data.content?.[0]?.text tolerates a
\* missing content, data.choices[0] does not tolerate missing choices.
NonStreamResult(prov, body) ==
    CASE body.kind = "unparsable" -> PlainError("Unexpected token in JSON")
      [] body.kind = "null" -> PlainError("Cannot read properties of null")
      [] body.kind = "object" ->
            IF prov = "claude" THEN ChatResponse("", prov, <<NoUsage>>)
            ELSE PlainError("Cannot read properties of undefined (reading '0')")
      [] body.kind = "empty" -> ChatResponse("", prov, <<NoUsage>>)
      [] body.kind = "text" -> ChatResponse(body.text, prov, <<NoUsage>>)

\* chat settles with the result of its handler.
ChatSettles(result) ==
    IF result.kind = "ChatResponse"
    THEN /\ cpc' = "resolved"
         /\ outcome' = <<result>>
    ELSE ChatThrows(result)

\* response.json() of the 2xx response settles: chat resolves or rejects.
HandleNonStream ==
    /\ cpc = "body"
    /\ \E body \in Bodies : ChatSettles(NonStreamResult(provider, body))
    /\ UNCHANGED <<provider, apiKey, request, onStream, fetches, response, sent,
                   carry, reader, fullContent, chunks>>
    /\ UNCHANGED outsideClient

\* ------------------------------------------------------------ handleStream

\* Texts a delta frame may carry, the empty text included.
DeltaTexts == {"", "Hel", "lo"}

\* Lines a provider may put on the stream:
\*   "event"    a line that does not start with 'data: ' (an 'event:' line);
\*   "invalid"  a 'data: ' line whose payload is not JSON;
\*   "other"    a 'data: ' line with a JSON frame that is neither a delta
\*              nor the terminal marker (message_start, a frame without
\*              choices);
\*   "terminal" the terminal marker of the backend (a message_stop frame for
\*              Claude, 'data: [DONE]' for OpenAI);
\*   "delta"    a text delta frame (content_block_delta for Claude, a
\*              choices[0].delta frame for OpenAI).
WireLines ==
    {[kind |-> k, text |-> ""] : k \in {"event", "invalid", "other", "terminal"}}
    \cup {[kind |-> "delta", text |-> t] : t \in DeltaTexts}

\* What one read delivers of a line: the whole line, or, when the transport
\* cuts the stream inside the line, its head in one read and its tail in
\* the next. The decoder is created once and called with {stream: true}, so
\* a cut inside a multi-byte character gives the same two strings as a cut
\* next to it: the bytes of the character all land in the tail.
Parts == {"whole", "head", "tail"}

\* The lines the transport is followed cutting: the frames that carry text
\* or end the stream. (Both halves of any other line are skipped, as the
\* whole line is.)
CutLines == {l \in WireLines : l.kind \in {"delta", "terminal"}}

\* n new lines as one read delivers them: all whole, except that the read
\* may end inside the last one.
NewPieces(n) ==
    {[j \in 1..n |-> [line |-> ls[j], part |-> "whole"]] : ls \in [1..n -> WireLines]}
    \cup {[j \in 1..n |-> [line |-> ls[j],
                            part |-> IF j = n THEN "head" ELSE "whole"]] :
             ls \in {f \in [1..n -> WireLines] : n > 0 /\ f[n] \in CutLines}}

\* The chunks the next read may deliver while the provider has lines left
\* to send: first the tail of the line the last read ended in, if any,
\* then new lines.
ReadChunks ==
    LET room == MaxLines - Len(sent)
        Upto(a, b) == IF a < b THEN a ELSE b
    IN  IF carry
        THEN {<<[line |-> sent[Len(sent)].line, part |-> "tail"]>> \o c :
                 c \in UNION {NewPieces(n) : n \in 0..Upto(room, MaxChunkLines - 1)}}
        ELSE UNION {NewPieces(n) : n \in 1..Upto(room, MaxChunkLines)}

\* The observer calls one line of a chunk leads to (the body of the for
\* loop). The head of a cut line lacks the 'data: ' prefix or carries a
\* payload that JSON.parse rejects (for OpenAI, one that is not '[DONE]'
\* either); its tail does not start with 'data: '. An "event" line fails
\* the startsWith test, an "invalid" payload makes JSON.parse throw into the
\* inner catch, an "other" frame matches no branch (Claude) or has no
\* delta content (OpenAI), and an empty delta text fails if (content).
LineCalls(prov, piece) ==
    CASE piece.part # "whole" -> <<>>
      [] piece.line.kind = "terminal" -> <<[content |-> "", done |-> TRUE]>>
      [] piece.line.kind = "delta" /\ piece.line.text # "" ->
            <<[content |-> piece.line.text, done |-> FALSE]>>
      [] OTHER -> <<>>

\* Faulty variant of ProcessLines: a line whose payload is not valid JSON
\* ends the processing of its chunk.
RECURSIVE ProcessLinesStopAtInvalid(_, _, _)
ProcessLinesStopAtInvalid(prov, pieces, st) ==
    IF pieces = <<>> \/ Head(pieces).line.kind = "invalid" THEN st
    ELSE LET made == LineCalls(prov, Head(pieces))
             added == IF made # <<>> /\ ~made[1].done THEN made[1].content ELSE ""
         IN  ProcessLinesStopAtInvalid(prov, Tail(pieces),
                                       [fullContent |-> st.fullContent \o added,
                                        chunks |-> st.chunks \o made])

\* The for loop over the lines of one chunk: st holds fullContent and the
\* observer calls made so far.
RECURSIVE ProcessLines(_, _, _)
ProcessLines(prov, pieces, st) ==
    IF pieces = <<>> THEN st
    ELSE LET made == LineCalls(prov, Head(pieces))
             added == IF made # <<>> /\ ~made[1].done THEN made[1].content ELSE ""
         IN  ProcessLines(prov, Tail(pieces),
                          [fullContent |-> st.fullContent \o added,
                           chunks |-> st.chunks \o made])

\* The lines a chunk adds to what the provider has sent: the tail belongs
\* to a line already counted.
LinesOf(pieces) ==
    LET new == SelectSeq(pieces, LAMBDA p : p.part # "tail")
    IN  [j \in 1..Len(new) |-> [line |-> new[j].line, cut |-> new[j].part = "head"]]

\* reader.read() resolves with a chunk, which is decoded, split into lines
\* and processed; the loop then awaits the next read.
HandleStreamRead ==
    /\ cpc = "reading"
    /\ \E chunk \in ReadChunks :
          /\ LET st == ProcessLines(provider, chunk,
                                    [fullContent |-> fullContent, chunks |-> chunks])
             IN  /\ fullContent' = st.fullContent
                 /\ chunks' = st.chunks
          /\ sent' = sent \o LinesOf(chunk)
          /\ carry' = (chunk[Len(chunk)].part = "head")
    /\ UNCHANGED <<provider, apiKey, request, onStream, cpc, fetches, response,
                   reader, outcome>>
    /\ UNCHANGED outsideClient

\* Faulty variant of HandleStreamDone: a stream that ends without terminal
\* marker is an error.
HandleStreamDoneStrict ==
    /\ cpc = "reading"
    /\ reader' = "released"
    /\ IF \E c \in 1..Len(chunks) : chunks[c].done
       THEN ChatSettles(ChatResponse(fullContent, provider, <<>>))
       ELSE ChatThrows(LLMError("Stream ended before completion", provider, <<>>))
    /\ UNCHANGED <<provider, apiKey, request, onStream, fetches, response, sent,
                   carry, fullContent, chunks>>
    /\ UNCHANGED outsideClient

\* reader.read() reports done: the loop ends, handleStream returns the
\* accumulated content (without usage), the finally releases the reader and
\* chat resolves.
HandleStreamDone ==
    /\ cpc = "reading"
    /\ reader' = "released"
    /\ ChatSettles(ChatResponse(fullContent, provider, <<>>))
    /\ UNCHANGED <<provider, apiKey, request, onStream, fetches, response, sent,
                   carry, fullContent, chunks>>
    /\ UNCHANGED outsideClient

\* reader.read() rejects: the finally releases the reader and the catch
\* clause of chat wraps the error.
HandleStreamReadFail ==
    /\ cpc = "reading"
    /\ reader' = "released"
    /\ ChatThrows(PlainError("network error"))
    /\ UNCHANGED <<provider, apiKey, request, onStream, fetches, response, sent,
                   carry, fullContent, chunks>>
    /\ UNCHANGED outsideClient

\* Faulty variant of HandleStreamObserverThrows: the exception leaves
\* handleStream without the reader being released.
HandleStreamObserverThrowsLocked ==
    /\ cpc = "reading"
    /\ provider = "openai"
    /\ \E chunk \in ReadChunks :
          /\ \E p \in 1..Len(chunk) :
                chunk[p].part = "whole" /\ chunk[p].line.kind = "terminal"
          /\ sent' = sent \o LinesOf(chunk)
          /\ carry' = (chunk[Len(chunk)].part = "head")
    /\ ChatThrows(PlainError("observer failed"))
    /\ UNCHANGED <<provider, apiKey, request, onStream, fetches, response,
                   reader, fullContent, chunks>>
    /\ UNCHANGED outsideClient

\* An exception raised while a chunk is processed leaves handleStream. The
\* observer is the only code of the loop body that may throw outside the
\* inner try block, and only in OpenAIClient, where the call made for the
\* '[DONE]' line (line 86) precedes it; every other observer call, and
\* every one ClaudeClient makes, is inside the inner try block, whose catch
\* swallows what the observer throws. The lines before the '[DONE]' line
\* are processed, the observer is called for it and throws, the finally
\* releases the reader and the catch clause of chat wraps the error.
HandleStreamObserverThrows ==
    /\ cpc = "reading"
    /\ provider = "openai"
    /\ \E chunk \in ReadChunks :
          /\ \E p \in 1..Len(chunk) :
                chunk[p].part = "whole" /\ chunk[p].line.kind = "terminal"
          /\ LET p == CHOOSE q \in 1..Len(chunk) :
                         /\ chunk[q].part = "whole"
                         /\ chunk[q].line.kind = "terminal"
                         /\ \A r \in 1..(q - 1) :
                               ~(chunk[r].part = "whole"
                                 /\ chunk[r].line.kind = "terminal")
                 st == ProcessLines(provider, SubSeq(chunk, 1, p),
                                    [fullContent |-> fullContent, chunks |-> chunks])
             IN  /\ fullContent' = st.fullContent
                 /\ chunks' = st.chunks
          /\ sent' = sent \o LinesOf(chunk)
          /\ carry' = (chunk[Len(chunk)].part = "head")
    /\ reader' = "released"
    /\ ChatThrows(PlainError("observer failed"))
    /\ UNCHANGED <<provider, apiKey, request, onStream, fetches, response>>
    /\ UNCHANGED outsideClient

\* The messages of the chat calls whose responses are followed through.
ChatMessages == {<<"system", "user">>}

InitChat ==
    /\ ExecutorIdle
    /\ FormatIdle
    /\ ValidateIdle
    /\ ParserIdle
    /\ FlowsUIIdle
    /\ RunsIdle
    /\ ProxyIdle
    /\ ClockIdle
    /\ AppIdle
    /\ provider \in Providers
    /\ apiKey \in ApiKeys
    /\ request \in [messages : {MessagesOf(r) : r \in ChatMessages},
                    stream : {"unset", "true", "false"}]
    /\ onStream \in BOOLEAN
    /\ cpc = "start"
    /\ fetches = <<>>
    /\ response = <<>>
    /\ sent = <<>>
    /\ carry = FALSE
    /\ reader = "none"
    /\ fullContent = ""
    /\ chunks = <<>>
    /\ outcome = <<>>

NextChat ==
    \/ Chat
    \/ FetchReject
    \/ FetchResolveNotOk
    \/ ErrorBodySettle
    \/ FetchResolveStream
    \/ FetchResolveNonStream
    \/ HandleNonStream
    \/ HandleStreamRead
    \/ HandleStreamDone
    \/ HandleStreamReadFail
    \/ HandleStreamObserverThrows

SpecChat == InitChat /\ [][NextChat]_allVars

\* chat followed up to the fetch, over all message lists.
InitRequest ==
    /\ ExecutorIdle
    /\ FormatIdle
    /\ ValidateIdle
    /\ ParserIdle
    /\ FlowsUIIdle
    /\ RunsIdle
    /\ ProxyIdle
    /\ ClockIdle
    /\ AppIdle
    /\ provider \in Providers
    /\ apiKey \in ApiKeys \ {""}
    /\ request \in [messages : {MessagesOf(r) : r \in MessageLists(MaxMessages)},
                    stream : {"unset", "true", "false"}]
    /\ onStream \in BOOLEAN
    /\ cpc = "start"
    /\ fetches = <<>>
    /\ response = <<>>
    /\ sent = <<>>
    /\ carry = FALSE
    /\ reader = "none"
    /\ fullContent = ""
    /\ chunks = <<>>
    /\ outcome = <<>>

NextRequest == Chat

SpecRequest == InitRequest /\ [][NextRequest]_allVars

\* ------------------------------------------------------------- properties

NumSteps == Len(flow)

\* The statuses of the FlowExecution's steps, in order.
StepStatuses == [j \in 1..Len(execution.steps) |-> execution.steps[j].status]

\* The 0-based steps whose chat call was rejected.
FailedCallSteps == {calls[c].step : c \in {d \in 1..Len(calls) : calls[d].state = "rejected"}}

\* The 0-based steps the execution holds in status 'error'.
ErrorSteps == {j - 1 : j \in {m \in 1..Len(execution.steps) : execution.steps[m].status = "error"}}

AllCallsResolved == \A c \in 1..Len(calls) : calls[c].state = "resolved"

C2_FailureAtStepK ==
    \A k \in FailedCallSteps :
        pc = "rejected" =>
            /\ \A j \in 1..k : execution.steps[j].status = "completed"
            /\ execution.steps[k + 1].status = "error"
            /\ \A j \in (k + 2)..NumSteps : execution.steps[j].status = "pending"
            /\ execution.status = "error"

C2_Witness ==
    /\ pc = "rejected"
    /\ NumSteps = 3
    /\ FailedCallSteps = {1}
    /\ StepStatuses = <<"completed", "error", "pending">>

\* C3: with a progress observer, a failure at step k leaves exactly
\* 1 + 2*(k+1) notifications delivered when execute rejects.
C3_NotificationCountOnFailure ==
    \A k \in FailedCallSteps :
        (pc = "rejected" /\ hasProgress) => Len(notified) = 1 + 2 * (k + 1)

C3_Witness ==
    /\ pc = "rejected"
    /\ hasProgress
    /\ FailedCallSteps = {2}
    /\ Len(notified) = 7

\* C4: chat is called once per attempted step, in step order: N calls when
\* execute returns, k+1 calls when step k failed, and no call is made once
\* a step is in error.
C4_OneCallPerStepFailFast ==
    /\ [](/\ \A c \in 1..Len(calls) : calls[c].step = c - 1
          /\ pc = "returned" => Len(calls) = NumSteps
          /\ \A k \in ErrorSteps : pc = "rejected" => Len(calls) = k + 1)
    /\ [][ErrorSteps # {} => calls' = calls]_vars

C4_Witness ==
    /\ pc = "rejected"
    /\ NumSteps = 3
    /\ ErrorSteps = {1}
    /\ Len(calls) = 2

\* One step's status may stay, or move pending -> running, or
\* running -> completed, or running -> error.
StepMoveAllowed(a, b) ==
    \/ a = b
    \/ a = "pending" /\ b = "running"
    \/ a = "running" /\ b \in {"completed", "error"}

C6_FlowStatus ==
    /\ [][pc = "init" => execution'.status = "running"]_vars
    /\ [](pc # "init" =>
            /\ execution.status \in {"running", "completed", "error"}
            /\ execution.status = "error" <=> ErrorSteps # {}
            /\ execution.status = "completed" =>
                  \A j \in 1..Len(execution.steps) : execution.steps[j].status = "completed")
    /\ [][(pc # "init" /\ execution.status # "running") =>
              execution'.status = execution.status]_vars

C6_Witness ==
    /\ pc = "rejected"
    /\ execution.status = "error"
    /\ ErrorSteps = {2}

\* C7: at most one step is 'running' in any state of an execution.
C7_AtMostOneRunning ==
    Cardinality({j \in 1..Len(execution.steps) : execution.steps[j].status = "running"}) <= 1

C7_Witness ==
    /\ pc = "await"
    /\ StepStatuses = <<"completed", "running", "pending">>

\* C8: the chat calls of one execution are made in step order, each only
\* after the one before has settled: at most one is in flight, and it is
\* the latest.
C8_CallsOneAtATime ==
    /\ Cardinality({c \in 1..Len(calls) : calls[c].state = "inflight"}) <= 1
    /\ \A c \in 1..(Len(calls) - 1) :
          /\ calls[c].state # "inflight"
          /\ calls[c].step < calls[c + 1].step

C8_Witness ==
    /\ Len(calls) = 3
    /\ calls[1].state = "resolved"
    /\ calls[2].state = "resolved"
    /\ calls[3].state = "inflight"

\* The notifications the execution must have delivered at its position.
ExpectedNotifications ==
    CASE pc = "init" -> 0
      [] pc = "loop" -> 1 + 2 * i
      [] pc \in {"call", "await"} -> 2 + 2 * i
      [] pc = "rejected" -> 3 + 2 * i
      [] pc = "returned" -> 2 + 2 * NumSteps

\* The n-th notification is the one of its place in the run.
NotificationInPlace(n) ==
    LET d == notified[n]
        k == (n - 2) \div 2
    IN  IF n = 1
        THEN /\ d.status = "running"
             /\ \A j \in 1..NumSteps : d.steps[j].status = "pending"
        ELSE IF n = 2 + 2 * NumSteps
        THEN /\ d.status = "completed"
             /\ \A j \in 1..NumSteps : d.steps[j].status = "completed"
        ELSE /\ d.currentStepIndex = k
             /\ \A j \in 1..k : d.steps[j].status = "completed"
             /\ \A j \in (k + 2)..NumSteps : d.steps[j].status = "pending"
             /\ IF n % 2 = 0
                THEN d.status = "running" /\ d.steps[k + 1].status = "running"
                ELSE \/ d.status = "running" /\ d.steps[k + 1].status = "completed"
                     \/ d.status = "error" /\ d.steps[k + 1].status = "error"

MergedPrompts(instruction, prev) ==
    {"Given this content:\n\n" \o prev \o "\n\n" \o instruction,
     instruction \o "\n\nContent to work with:\n" \o prev}

\* C10: the prompt sent for a step i > 0 with usesPreviousOutput contains
\* the output the provider returned for step i-1, and what is merged into
\* the instruction is that output, not an older output or the initial input.
C10_PromptCarriesPreviousOutput ==
    \A c \in 1..Len(calls) :
        LET k == calls[c].step
            prompt == calls[c].messages[1].content
        IN  (k > 0 /\ flow[k + 1].usesPreviousOutput) =>
                LET out == execution.steps[k].output[1]
                IN  /\ Contains(prompt, out)
                    /\ out # "" => prompt \in MergedPrompts(flow[k + 1].instruction, out)

C10_Witness ==
    /\ initialInput = "seed"
    /\ Len(calls) = 3
    /\ flow[3].usesPreviousOutput
    /\ execution.steps[1].output = <<"Lorem">>
    /\ execution.steps[2].output = <<"ipsum">>
    /\ Contains(calls[3].messages[1].content, "ipsum")
    /\ ~Contains(calls[3].messages[1].content, "Lorem")
    /\ ~Contains(calls[3].messages[1].content, "seed")

\* A reference word occurs in s as a whole word, whatever the case of its
\* letters: no letter, digit or '_' stands right before or right after it.
HasReferenceWord(s) ==
    \E w \in ReferenceWords :
        \E p \in 1..(Len(s) - Len(w) + 1) :
            /\ LowerCase(SubSeq(s, p, p + Len(w) - 1)) = w
            /\ p = 1 \/ ~IsWordChar(CharAt(s, p - 1))
            /\ p + Len(w) > Len(s) \/ ~IsWordChar(CharAt(s, p + Len(w)))

\* C11: with usesPreviousOutput and a non-empty previous output P,
\* formatStepPrompt returns 'Given this content:\n\n' + P + '\n\n' +
\* instruction when the instruction holds a reference word as a whole word,
\* and instruction + '\n\nContent to work with:\n' + P otherwise; without
\* usesPreviousOutput it returns the instruction.
C11_FormatStepPrompt ==
    fmtOut # <<>> =>
        LET ins == fmtIn.step.instruction
            P == fmtIn.previousOutput
        IN  /\ (fmtIn.step.usesPreviousOutput /\ P # "" /\ HasReferenceWord(ins)) =>
                  fmtOut[1] = "Given this content:\n\n" \o P \o "\n\n" \o ins
            /\ (fmtIn.step.usesPreviousOutput /\ P # "" /\ ~HasReferenceWord(ins)) =>
                  fmtOut[1] = ins \o "\n\nContent to work with:\n" \o P
            /\ ~fmtIn.step.usesPreviousOutput => fmtOut[1] = ins

C11_Witness ==
    /\ fmtIn.step.instruction = "edit item"
    /\ fmtIn.step.usesPreviousOutput
    /\ fmtIn.previousOutput = "it a"
    /\ fmtOut = <<"edit item\n\nContent to work with:\nit a">>

\* The previous output step k (0-based) is built from: the initial input
\* for the first step, the output of the step before for the others.
PreviousOutputOf(k) == IF k = 0 THEN initialInput ELSE execution.steps[k].output[1]

\* C12: every chat call of execute carries one message, of role 'user',
\* whose content is the built prompt of the call's step; it requests
\* streaming exactly when a step stream observer was passed, and that
\* observer is handed on.
C12_OneUserMessagePerCall ==
    \A c \in 1..Len(calls) :
        LET k == calls[c].step
        IN  /\ Len(calls[c].messages) = 1
            /\ calls[c].messages[1].role = "user"
            /\ calls[c].messages[1].content = formatStepPrompt(flow[k + 1], PreviousOutputOf(k))
            /\ calls[c].stream = hasStepStream
            /\ calls[c].onStream = hasStepStream

C12_Witness ==
    /\ ~hasStepStream
    /\ Len(calls) = 2
    /\ calls[2].stream = FALSE
    /\ calls[2].messages = <<[role |-> "user",
                              content |-> "Given this content:\n\nLorem\n\nSummarize this"]>>

ChatSettled == cpc \in {"resolved", "rejected"}

\* The chat call was rejected with an LLMError of this client's provider.
RejectedWithProviderError ==
    /\ cpc = "rejected"
    /\ Len(outcome) = 1
    /\ outcome[1].kind = "LLMError"
    /\ outcome[1].provider = provider

\* C14: for both backends, chat on a client whose API key is empty fails
\* with a provider error before any network request is issued: once chat
\* has run, the call is rejected with an LLMError of the backend, and no
\* fetch was made and no response received.
C14_NoKeyNoRequest ==
    (apiKey = "" /\ cpc \notin {"idle", "start"}) =>
        /\ RejectedWithProviderError
        /\ fetches = <<>>
        /\ response = <<>>
        /\ chunks = <<>>

C14_Witness ==
    /\ apiKey = ""
    /\ provider = "openai"
    /\ RejectedWithProviderError
    /\ outcome[1].message = "OpenAI API key is required"
    /\ fetches = <<>>

\* The chat call failed on a non-2xx HTTP response.
FailedOnStatus == response # <<>> /\ ~Ok(response[1].status)

\* C15: every failure of chat surfaces to the caller as an LLMError
\* carrying the backend's provider id, and the statusCode is present
\* exactly when the failure was a non-2xx HTTP response (it is then the
\* status of that response).
C15_FailuresAreProviderErrors ==
    cpc = "rejected" =>
        /\ RejectedWithProviderError
        /\ outcome[1].statusCode # <<>> <=> FailedOnStatus
        /\ FailedOnStatus => outcome[1].statusCode = <<response[1].status>>

\* The chat call went through handleStream and returned.
StreamReturned == cpc = "resolved" /\ reader = "released"

\* The lines received in full: all lines sent, but for a last line of
\* which only the head arrived.
Received == IF carry THEN SubSeq(sent, 1, Len(sent) - 1) ELSE sent

\* The non-empty text deltas received, in order.
DeltasReceived ==
    LET frames == SelectSeq(Received,
                            LAMBDA e : e.line.kind = "delta" /\ e.line.text # "")
    IN  [j \in 1..Len(frames) |-> frames[j].line.text]

RECURSIVE Concat(_)
Concat(texts) == IF texts = <<>> THEN "" ELSE Head(texts) \o Concat(Tail(texts))

\* C16: in streaming mode the content returned by chat is the in-order
\* concatenation of all non-empty text deltas received, the observer is
\* called with done=false exactly once per non-empty delta, carrying that
\* delta, and each terminal marker received produces a done=true call with
\* empty content.
C16_StreamAccumulates ==
    StreamReturned =>
        LET partial == SelectSeq(chunks, LAMBDA c : ~c.done)
            final == SelectSeq(chunks, LAMBDA c : c.done)
        IN  /\ outcome[1].content = Concat(DeltasReceived)
            /\ partial = [j \in 1..Len(DeltasReceived) |->
                             [content |-> DeltasReceived[j], done |-> FALSE]]
            /\ Len(final) = Len(SelectSeq(Received, LAMBDA e : e.line.kind = "terminal"))
            /\ \A j \in 1..Len(final) : final[j].content = ""

\* C17: in streaming mode the observer calls of one chat are zero or more
\* done=false calls followed by at most one done=true call: no call of
\* either kind is made after a done=true call.
C17_NothingAfterDone ==
    \A a \in 1..Len(chunks) : chunks[a].done => a = Len(chunks)

\* No terminal marker is among the lines sent, whole or cut.
NoTerminalSent == \A j \in 1..Len(sent) : sent[j].line.kind # "terminal"

NoDoneCall == \A c \in 1..Len(chunks) : ~chunks[c].done

\* C18: if the response stream ends (the reader reports done) without any
\* terminal marker having been received, chat resolves successfully with
\* the content accumulated so far and the observer never receives a
\* done=true call: while no terminal marker was sent no done=true call is
\* made, and the step on which the reader reports done then resolves the
\* call with fullContent, the concatenation of the observer's contents.
C18_EndWithoutTerminal ==
    /\ [](NoTerminalSent => NoDoneCall)
    /\ [][(HandleStreamDone /\ NoTerminalSent) =>
              /\ cpc' = "resolved"
              /\ outcome'[1].kind = "ChatResponse"
              /\ outcome'[1].content = fullContent
              /\ outcome'[1].content = Concat([c \in 1..Len(chunks) |-> chunks[c].content])
              /\ chunks' = chunks]_allVars

C18_Witness ==
    /\ StreamReturned
    /\ NoTerminalSent
    /\ NoDoneCall
    /\ outcome[1].content = "Hello"
    /\ Len(chunks) = 2

\* The stream sent so far as a transport delivers it that cuts no line: every
\* line whole, but for a last line of which only the head was sent.
Uncut ==
    [j \in 1..Len(sent) |->
        [line |-> sent[j].line,
         part |-> IF j = Len(sent) /\ carry THEN "head" ELSE "whole"]]

\* What handleStream accumulates when the stream arrives uncut.
UncutResult == ProcessLines(provider, Uncut, [fullContent |-> "", chunks |-> <<>>])

\* C19: for a given upstream stream, the content returned by chat and the
\* sequence of observer calls do not depend on where the transport splits
\* the stream into reads: they are those of the delivery that cuts no line.
C19_SplitIndependent ==
    StreamReturned =>
        /\ outcome[1].content = UncutResult.fullContent
        /\ chunks = UncutResult.chunks

\* Positions of the request's messages with and without the system role.
SystemPositions ==
    {j \in 1..Len(request.messages) : request.messages[j].role = "system"}

OtherPositions == (1..Len(request.messages)) \ SystemPositions

\* sentMessages is the request's messages at the positions kept, in the
\* order they have in the request.
KeepsInOrder(sentMessages, kept) ==
    \E f \in [1..Len(sentMessages) -> 1..Len(request.messages)] :
        /\ {f[j] : j \in 1..Len(sentMessages)} = kept
        /\ \A a, b \in 1..Len(sentMessages) : a < b => f[a] < f[b]
        /\ \A j \in 1..Len(sentMessages) : sentMessages[j] = request.messages[f[j]]

\* C20: the body Claude's chat sends holds no system-role message, its
\* system field is the content of the first system message of the request
\* (absent when there is none, further system messages being dropped), and
\* its messages are the request's other messages in their order; the body
\* OpenAI's chat sends holds the request's message list unchanged.
C20_RequestNormalization ==
    fetches # <<>> =>
        LET body == fetches[1]
        IN  IF provider = "claude"
            THEN /\ \A j \in 1..Len(body.messages) : body.messages[j].role # "system"
                 /\ KeepsInOrder(body.messages, OtherPositions)
                 /\ body.system =
                        IF SystemPositions = {} THEN <<>>
                        ELSE <<request.messages[
                                  CHOOSE j \in SystemPositions :
                                      \A k \in SystemPositions : j <= k].content>>
            ELSE /\ body.messages = request.messages
                 /\ "system" \notin DOMAIN body

C20_Witness ==
    /\ provider = "claude"
    /\ fetches # <<>>
    /\ Len(request.messages) = 3
    /\ SystemPositions = {2, 3}
    /\ fetches[1].system = <<"m2">>
    /\ fetches[1].messages = <<[role |-> "user", content |-> "m1"]>>

\* ------------------------- llm/claude.ts, llm/openai.ts: validateApiKey

\* Most validateApiKey calls made on one client.
MaxValidations == 3

BaseUrl(prov) ==
    IF prov = "claude" THEN "https://api.anthropic.com/v1"
    ELSE "https://api.openai.com/v1"

\* The client object as its constructor leaves it.
NewClient(prov, key) ==
    [provider |-> prov, apiKey |-> key, model |-> DefaultModel(prov),
     baseUrl |-> BaseUrl(prov)]

\* The probe request validateApiKey issues: a one-token POST to /messages
\* for Claude, a GET of /models for OpenAI; answer is <<>> while it is
\* pending.
Probe(client) ==
    [url |-> client.baseUrl \o (IF client.provider = "claude" THEN "/messages" ELSE "/models"),
     method |-> IF client.provider = "claude" THEN "POST" ELSE "GET",
     key |-> client.apiKey,
     model |-> IF client.provider = "claude" THEN <<client.model>> ELSE <<>>,
     answer |-> <<>>]

\* Faulty variant of ProbeVerdict: only a 2xx answer counts, for both
\* backends.
ProbeVerdictOkOnly(prov, status) == Ok(status)

\* What validateApiKey returns for an answered probe: response.ok ||
\* response.status === 400 for Claude, response.ok for OpenAI.
ProbeVerdict(prov, status) ==
    IF prov = "claude" THEN Ok(status) \/ status = 400 ELSE Ok(status)

\* The last probe with its answer filled in.
Answered(log, answer) ==
    [log EXCEPT ![Len(log)] = [@ EXCEPT !.answer = <<answer>>]]

\* validateApiKey is called: it issues the probe and awaits it.
ValidateApiKey ==
    /\ vpc = "ready"
    /\ Len(probes) < MaxValidations
    /\ probes' = Append(probes, Probe(vclient))
    /\ vpc' = "probing"
    /\ UNCHANGED <<vclient, verdicts>>
    /\ UNCHANGED outsideValidate

\* Faulty variant of ProbeResolve: a refused credential is forgotten.
ProbeResolveClearsKey ==
    /\ vpc = "probing"
    /\ \E status \in Statuses :
          /\ probes' = Answered(probes, [kind |-> "status", status |-> status])
          /\ verdicts' = Append(verdicts, ProbeVerdict(vclient.provider, status))
          /\ vclient' = IF ProbeVerdict(vclient.provider, status) THEN vclient
                        ELSE [vclient EXCEPT !.apiKey = ""]
    /\ vpc' = "ready"
    /\ UNCHANGED outsideValidate

\* The probe is answered: validateApiKey returns its verdict on the status.
ProbeResolve ==
    /\ vpc = "probing"
    /\ \E status \in Statuses :
          /\ probes' = Answered(probes, [kind |-> "status", status |-> status])
          /\ verdicts' = Append(verdicts, ProbeVerdict(vclient.provider, status))
    /\ vpc' = "ready"
    /\ UNCHANGED vclient
    /\ UNCHANGED outsideValidate

\* fetch rejects (the transport fails): the catch returns false.
ProbeReject ==
    /\ vpc = "probing"
    /\ probes' = Answered(probes, [kind |-> "failed"])
    /\ verdicts' = Append(verdicts, FALSE)
    /\ vpc' = "ready"
    /\ UNCHANGED vclient
    /\ UNCHANGED outsideValidate

InitValidate ==
    /\ ExecutorIdle
    /\ FormatIdle
    /\ ClientIdle
    /\ ParserIdle
    /\ FlowsUIIdle
    /\ RunsIdle
    /\ ProxyIdle
    /\ ClockIdle
    /\ AppIdle
    /\ vclient \in {NewClient(prov, key) : prov \in Providers, key \in ApiKeys}
    /\ vpc = "ready"
    /\ probes = <<>>
    /\ verdicts = <<>>

NextValidate ==
    \/ ValidateApiKey
    \/ ProbeResolve
    \/ ProbeReject

SpecValidate == InitValidate /\ [][NextValidate]_allVars

\* ------------------------------------------ properties of validateApiKey

\* The answer to the j-th probe was a response with status st.
AnsweredWith(j, st) ==
    probes[j].answer = <<[kind |-> "status", status |-> st]>>

\* C21: Claude's validateApiKey returns true when the probe response is 2xx
\* or has status 400 and false for every other status; OpenAI's returns true
\* only for a 2xx response; both return false, and do not throw, when the
\* transport fails. Every call that has settled has returned a boolean.
C21_ValidateVerdict ==
    /\ Len(verdicts) = IF vpc = "probing" THEN Len(probes) - 1 ELSE Len(probes)
    /\ \A j \in 1..Len(verdicts) :
          /\ verdicts[j] \in BOOLEAN
          /\ probes[j].answer = <<[kind |-> "failed"]>> => verdicts[j] = FALSE
          /\ \A st \in Statuses :
                AnsweredWith(j, st) =>
                    verdicts[j] =
                        IF vclient.provider = "claude"
                        THEN st \in 200..299 \/ st = 400
                        ELSE st \in 200..299

C21_Witness ==
    /\ vclient.provider = "claude"
    /\ Len(verdicts) = 3
    /\ AnsweredWith(1, 400) /\ verdicts[1] = TRUE
    /\ AnsweredWith(2, 401) /\ verdicts[2] = FALSE
    /\ probes[3].answer = <<[kind |-> "failed"]>> /\ verdicts[3] = FALSE

MaxWords == 3

\* Most steps of a ParsedFlow handed to validateFlow.
MaxFlowSteps == 2

\* Characters that trim() removes and /\s+/ splits on.
Spaces == {" ", "\n", "\t"}

RECURSIVE TrimStart(_)
TrimStart(s) ==
    IF s # "" /\ CharAt(s, 1) \in Spaces THEN TrimStart(SubSeq(s, 2, Len(s))) ELSE s

RECURSIVE TrimEnd(_)
TrimEnd(s) ==
    IF s # "" /\ CharAt(s, Len(s)) \in Spaces THEN TrimEnd(SubSeq(s, 1, Len(s) - 1)) ELSE s

\* String.prototype.trim
Trim(s) == TrimEnd(TrimStart(s))

\* s.split(sep) for a one-character separator class: the pieces between
\* separators, empty pieces included.
RECURSIVE Split(_, _)
Split(s, seps) ==
    IF s = "" THEN <<"">>
    ELSE LET rest == Split(SubSeq(s, 2, Len(s)), seps)
         IN  IF CharAt(s, 1) \in seps THEN <<"">> \o rest
             ELSE <<CharAt(s, 1) \o rest[1]>> \o Tail(rest)

\* normalized.split(/\s+/) of a trimmed string: a run of white space is one
\* separator, so no piece is empty.
Words(s) == SelectSeq(Split(s, Spaces), LAMBDA w : w # "")

STEP_KEYWORDS ==
    {"first", "then", "next", "after that", "finally", "lastly", "subsequently",
     "following that", "and then"}

\* The loop over the words from index k (1-based) on: a keyword closes the
\* current segment, a two-word keyword also skips the next word; the last
\* segment is added after the loop.
RECURSIVE KeywordSegments(_, _, _, _)
KeywordSegments(words, k, currentSegment, segments) ==
    LET closed == IF Trim(currentSegment) # ""
                  THEN Append(segments, Trim(currentSegment)) ELSE segments
    IN  IF k > Len(words) THEN closed
        ELSE LET word == LowerCase(words[k])
                 nextWord == IF k < Len(words) THEN LowerCase(words[k + 1]) ELSE ""
                 twoWords == word \o " " \o nextWord
             IN  IF twoWords \in STEP_KEYWORDS
                 THEN KeywordSegments(words, k + 2, "", closed)
                 ELSE IF word \in STEP_KEYWORDS
                 THEN KeywordSegments(words, k + 1, "", closed)
                 ELSE KeywordSegments(words, k + 1,
                                      currentSegment \o words[k] \o " ", segments)

\* Faulty variant of StepsOf: every step uses the previous output.
StepsOfAllChained(segments) ==
    SelectSeq([j \in 1..Len(segments) |->
                  [order |-> j, instruction |-> Trim(segments[j]),
                   usesPreviousOutput |-> TRUE]],
              LAMBDA step : step.instruction # "")

\* segments.forEach((segment, index) => ...): a step per segment whose
\* trimmed text is not empty, numbered by the position of the segment.
StepsOf(segments) ==
    SelectSeq([j \in 1..Len(segments) |->
                  [order |-> j, instruction |-> Trim(segments[j]),
                   usesPreviousOutput |-> j > 1]],
              LAMBDA step : step.instruction # "")

parseFlowDescription(description) ==
    IF Trim(description) = ""
    THEN [steps |-> <<>>, rawDescription |-> description]
    ELSE LET normalized == Trim(description)
             byKeyword == KeywordSegments(Words(normalized), 1, "", <<>>)
             byPunctuation == SelectSeq(Split(normalized, {",", ";", "."}),
                                        LAMBDA x : Trim(x) # "")
             found == IF Len(byKeyword) <= 1 THEN byPunctuation ELSE byKeyword
             segments == IF Len(found) = 0 THEN <<normalized>> ELSE found
         IN  [steps |-> StepsOf(segments), rawDescription |-> description]

\* validateFlow: error is <<>> when the field is absent.
validateFlow(parsed) ==
    IF Len(parsed.steps) = 0
    THEN [valid |-> FALSE, error |-> <<"Flow must contain at least one step">>]
    ELSE LET blank == {j \in 1..Len(parsed.steps) : Trim(parsed.steps[j].instruction) = ""}
         IN  IF blank # {}
             THEN LET j == CHOOSE a \in blank : \A b \in blank : a <= b
                  IN  [valid |-> FALSE,
                       error |-> <<"Step " \o ToString(parsed.steps[j].order)
                                   \o " has no instruction">>]
             ELSE [valid |-> TRUE, error |-> <<>>]

\* Words a description is made of: plain words, keywords in both cases,
\* halves of the two-word keywords, and words with punctuation.
DescriptionWords ==
    {"Sum", "then", "Then", "and", "after", "that", "a,b", ".", "x;"}

\* Descriptions of n words with one space between them.
RECURSIVE DescriptionsOf(_)
DescriptionsOf(n) ==
    IF n = 1 THEN DescriptionWords
    ELSE {d \o " " \o w : d \in DescriptionsOf(n - 1), w \in DescriptionWords}

\* The descriptions parsed: those of up to MaxWords words, and some with
\* irregular white space, with nothing but punctuation or keywords, and
\* blank ones.
Descriptions ==
    UNION {DescriptionsOf(n) : n \in 1..MaxWords}
    \cup {"", "  ", " \n\t", "  Sum  up \n then  list  ", ",;.", " . ", "a. .b",
          "first", "and then", "after that finally", "a . then . b", "then, b",
          "go;then stop", "one.two,three;four"}

\* validateFlow's arguments: flows of up to MaxFlowSteps steps whose
\* instructions may be empty or blank.
FlowsToValidate ==
    UNION {{[steps |-> [j \in 1..n |-> [order |-> j, instruction |-> f[j],
                                         usesPreviousOutput |-> j > 1]],
             rawDescription |-> "raw"] :
               f \in [1..n -> {"Sum up", "", " \t", "it"}]} : n \in 0..MaxFlowSteps}

InitParser ==
    /\ ExecutorIdle
    /\ FormatIdle
    /\ ClientIdle
    /\ ValidateIdle
    /\ FlowsUIIdle
    /\ RunsIdle
    /\ ProxyIdle
    /\ ClockIdle
    /\ AppIdle
    /\ parseIn \in [kind : {"description"}, description : Descriptions]
                   \cup [kind : {"flow"}, flow : FlowsToValidate]
    /\ parseOut = <<>>

\* parseFlowDescription(description) is called and returns.
ParseCall ==
    /\ parseOut = <<>>
    /\ parseIn.kind = "description"
    /\ parseOut' = <<parseFlowDescription(parseIn.description)>>
    /\ UNCHANGED parseIn
    /\ UNCHANGED outsideParser

\* validateFlow(flow) is called and returns.
ValidateFlowCall ==
    /\ parseOut = <<>>
    /\ parseIn.kind = "flow"
    /\ parseOut' = <<validateFlow(parseIn.flow)>>
    /\ UNCHANGED parseIn
    /\ UNCHANGED outsideParser

NextParser ==
    \/ ParseCall
    \/ ValidateFlowCall

SpecParser == InitParser /\ [][NextParser]_allVars

\* ------------------------------------------------- properties of the parser

\* C24: for every non-blank description, parseFlowDescription yields a
\* ParsedFlow with at least one step, order values exactly 1..N in sequence
\* with no gaps, and usesPreviousOutput = false for the first step.
C24_ParsedFlowShape ==
    (parseIn.kind = "description" /\ parseOut # <<>>
        /\ \E p \in 1..Len(parseIn.description) :
              CharAt(parseIn.description, p) \notin {" ", "\n", "\t"}) =>
        LET steps == parseOut[1].steps
        IN  /\ Len(steps) >= 1
            /\ \A j \in 1..Len(steps) : steps[j].order = j
            /\ steps[1].usesPreviousOutput = FALSE

C24_Witness ==
    /\ parseIn.kind = "description"
    /\ parseIn.description = "Sum then a,b"
    /\ parseOut # <<>>
    /\ Len(parseOut[1].steps) = 2
    /\ parseOut[1].steps[2] = [order |-> 2, instruction |-> "a,b", usesPreviousOutput |-> TRUE]

\* ---------------------------------------- ui/flows.ts: handleExecuteFlow

\* What the two inputs of the panel may hold.
DescriptionInputs == {"", "  ", " Sum up then shorten it ", "List 3 facts"}

InitialInputValues == {"", " seed "}

ShowError(panel, text) ==
    [panel EXCEPT !.message = <<[kind |-> "error", text |-> text]>>]

\* What handleExecuteFlow validates: the flow parseFlowDescription returns
\* for the description, and, to follow the handler on every flow
\* validateFlow can refuse, any flow of FlowsToValidate in its place.
ParsedForUI(description) ==
    {parseFlowDescription(description)} \cup FlowsToValidate

\* Faulty variant of HandleExecuteFlow: the flow is executed whatever
\* validateFlow says.
HandleExecuteFlowUnvalidated ==
    /\ uipc = "ready"
    /\ LET description == Trim(ui.description)
           input == Trim(ui.initialInput)
       IN  IF ~ui.hasClient \/ description = "" \/ input = ""
           THEN /\ ui' = ShowError(ui, "Please check the inputs")
                /\ uipc' = "returned"
                /\ UNCHANGED vars
           ELSE \E parsed \in ParsedForUI(description) :
                   /\ ui' = [ui EXCEPT !.progressShown = TRUE]
                   /\ uipc' = "executing"
                   /\ flow' = parsed.steps
                   /\ initialInput' = input
                   /\ hasProgress' = TRUE
                   /\ hasStepStream' = FALSE
                   /\ pc' = "init"
                   /\ UNCHANGED <<i, execution, previousOutput, notified, calls, thrown>>
    /\ UNCHANGED outsideFlowsUI

\* handleExecuteFlow up to its await: the guards, parse and validate, then
\* showProgress and the call of executor.execute with the parsed flow, the
\* trimmed input and a progress observer (no stream observer).
HandleExecuteFlow ==
    /\ uipc = "ready"
    /\ LET description == Trim(ui.description)
           input == Trim(ui.initialInput)
       IN  IF ~ui.hasClient
           THEN /\ ui' = ShowError(ui, "Please configure your API keys in settings first")
                /\ uipc' = "returned"
                /\ UNCHANGED vars
           ELSE IF description = ""
           THEN /\ ui' = ShowError(ui, "Please enter flow steps")
                /\ uipc' = "returned"
                /\ UNCHANGED vars
           ELSE IF input = ""
           THEN /\ ui' = ShowError(ui, "Please enter initial input")
                /\ uipc' = "returned"
                /\ UNCHANGED vars
           ELSE \E parsed \in ParsedForUI(description) :
                   LET validation == validateFlow(parsed)
                   IN  IF ~validation.valid
                       THEN /\ ui' = ShowError(ui, IF validation.error # <<>>
                                                   THEN validation.error[1]
                                                   ELSE "Invalid flow")
                            /\ uipc' = "returned"
                            /\ UNCHANGED vars
                       ELSE /\ ui' = [ui EXCEPT !.progressShown = TRUE]
                            /\ uipc' = "executing"
                            /\ flow' = parsed.steps
                            /\ initialInput' = input
                            /\ hasProgress' = TRUE
                            /\ hasStepStream' = FALSE
                            /\ pc' = "init"
                            /\ UNCHANGED <<i, execution, previousOutput, notified,
                                           calls, thrown>>
    /\ UNCHANGED outsideFlowsUI

\* The awaited execute call has returned: the success message is shown.
HandleExecuteFlowDone ==
    /\ uipc = "executing"
    /\ pc = "returned"
    /\ ui' = [ui EXCEPT !.message = <<[kind |-> "success",
                                       text |-> "Flow completed successfully"]>>]
    /\ uipc' = "returned"
    /\ UNCHANGED vars
    /\ UNCHANGED outsideFlowsUI

\* The awaited execute call has rejected: the catch shows the error.
HandleExecuteFlowFailed ==
    /\ uipc = "executing"
    /\ pc = "rejected"
    /\ ui' = ShowError(ui, IF thrown[1].isError THEN thrown[1].message
                           ELSE "Flow execution failed")
    /\ uipc' = "returned"
    /\ UNCHANGED vars
    /\ UNCHANGED outsideFlowsUI

InitFlowsUI ==
    /\ ExecutorIdle
    /\ FormatIdle
    /\ ClientIdle
    /\ ValidateIdle
    /\ ParserIdle
    /\ RunsIdle
    /\ ProxyIdle
    /\ ClockIdle
    /\ AppIdle
    /\ ui \in [hasClient : BOOLEAN, description : DescriptionInputs,
               initialInput : InitialInputValues, message : {<<>>},
               progressShown : {FALSE}]
    /\ uipc = "ready"

NextFlowsUI ==
    \/ HandleExecuteFlow
    \/ Execute
    \/ StepStart
    \/ ChatCall
    \/ ChatResolve
    \/ ChatReject
    \/ Finish
    \/ HandleExecuteFlowDone
    \/ HandleExecuteFlowFailed

SpecFlowsUI == InitFlowsUI /\ [][NextFlowsUI]_allVars

\* ------------------------------------- properties of handleExecuteFlow

\* The flow has zero steps or a step whose instruction is empty or
\* white space only.
Unexecutable(steps) ==
    \/ Len(steps) = 0
    \/ \E j \in 1..Len(steps) :
          \A p \in 1..Len(steps[j].instruction) :
              CharAt(steps[j].instruction, p) \in {" ", "\n", "\t"}

\* Nothing of an execution exists: no FlowExecution, no notification, no
\* provider call.
NoExecutionBegun ==
    /\ pc = "idle"
    /\ execution = NoExecution
    /\ notified = <<>>
    /\ calls = <<>>

MaxRunSteps == 2

\* The two execute calls followed.
RunIds == {"r1", "r2"}

\* FlowExecutor objects: e1 and e2 carry the calls; e3 stands for an
\* executor the panel makes anew (it never carries a call).
Executors == {"e1", "e2", "e3"}

\* Provider client instances.
Clients == {"c1", "c2"}

\* What a provider answers with, apart from the client serving the call:
\* the answers of two client instances differ, which is what tells whose
\* answer a step has recorded.
RunAnswers == {"A"}

\* The flows executed concurrently: every step builds on the previous
\* output.
RunFlows ==
    {[j \in 1..n |-> [order |-> j,
                      instruction |-> "Summarize this",
                      usesPreviousOutput |-> TRUE]] : n \in 1..MaxRunSteps}

\* The initialInput argument of each execute call.
RunInput(r) == "input of " \o r

\* One llmClient.chat call of an execute call: the client instance it was
\* made on, the prompt it carries and how it stands.
RunCall(k, client, prompt) ==
    [step |-> k, client |-> client, prompt |-> prompt,
     state |-> "inflight", content |-> <<>>, error |-> <<>>]

\* Faulty variant of Answer: the content comes from the client the executor
\* holds when the call settles.
AnswerFromCurrent(call, current, x) == current \o ":" \o x

\* The content a call resolves with: the promise belongs to the client
\* instance chat was called on; current is the executor's client by then.
Answer(call, current, x) == call.client \o ":" \o x

\* Faulty variant of RunLoop: the client is captured when execute starts
\* and every step of the execution is sent to it.
RunLoopClientCaptured(run, client, other) ==
    IF InLoop(run.i, run.flow)
    THEN [run EXCEPT
            !.execution = MarkRunning(run.execution, run.i),
            !.calls = Append(run.calls,
                             RunCall(run.i,
                                     IF run.calls = <<>> THEN client
                                     ELSE run.calls[1].client,
                                     formatStepPrompt(run.flow[run.i + 1],
                                                      run.previousOutput))),
            !.pc = "awaiting"]
    ELSE [run EXCEPT !.execution = MarkFlowCompleted(run.execution),
                     !.pc = "returned"]

\* Faulty variant of RunLoop: the prompt is built from the previous output
\* of another execute call.
RunLoopSharedPrevious(run, client, other) ==
    IF InLoop(run.i, run.flow)
    THEN [run EXCEPT
            !.execution = MarkRunning(run.execution, run.i),
            !.calls = Append(run.calls,
                             RunCall(run.i, client,
                                     formatStepPrompt(run.flow[run.i + 1],
                                                      other.previousOutput))),
            !.pc = "awaiting"]
    ELSE [run EXCEPT !.execution = MarkFlowCompleted(run.execution),
                     !.pc = "returned"]

\* The loop of execute from its head to the next await or to the return:
\* nothing else runs in between. client is this.llmClient as the call is
\* made; other is another execute call, which the code never consults.
RunLoop(run, client, other) ==
    IF InLoop(run.i, run.flow)
    THEN [run EXCEPT
            !.execution = MarkRunning(run.execution, run.i),
            !.calls = Append(run.calls,
                             RunCall(run.i, client,
                                     formatStepPrompt(run.flow[run.i + 1],
                                                      run.previousOutput))),
            !.pc = "awaiting"]
    ELSE [run EXCEPT !.execution = MarkFlowCompleted(run.execution),
                     !.pc = "returned"]

OtherRun(r) == CHOOSE q \in RunIds : q # r

\* execute(flow, initialInput) up to its first await.
RunExecute(r) ==
    /\ runs[r].pc = "idle"
    /\ runs' = [runs EXCEPT ![r] =
                  RunLoop([runs[r] EXCEPT
                             !.execution = NewExecution(runs[r].flow),
                             !.previousOutput = runs[r].initialInput,
                             !.i = 0],
                          llmClient[runs[r].executor],
                          runs[OtherRun(r)])]
    /\ UNCHANGED <<llmClient, uiExecutor>>
    /\ UNCHANGED outsideRuns

\* The awaited call resolves: the step completes and the loop goes on to the
\* next await or to the return.
RunChatResolve(r) ==
    /\ runs[r].pc = "awaiting"
    /\ \E x \in RunAnswers :
          LET run == runs[r]
              content == Answer(run.calls[Len(run.calls)],
                                llmClient[run.executor], x)
          IN  runs' = [runs EXCEPT ![r] =
                 RunLoop([run EXCEPT
                            !.execution = MarkCompleted(run.execution, run.i, content),
                            !.previousOutput =
                                NextPreviousOutput(run.previousOutput, content),
                            !.calls = Settle(run.calls, "resolved", <<content>>),
                            !.i = run.i + 1],
                         llmClient[run.executor],
                         runs[OtherRun(r)])]
    /\ UNCHANGED <<llmClient, uiExecutor>>
    /\ UNCHANGED outsideRuns

\* The awaited call rejects: the step and the flow are put in error and
\* execute rethrows.
RunChatReject(r) ==
    /\ runs[r].pc = "awaiting"
    /\ LET run == runs[r]
           err == [isError |-> TRUE, message |-> "boom"]
       IN  runs' = [runs EXCEPT ![r] =
              [run EXCEPT !.execution = MarkError(run.execution, run.i, err),
                          !.calls = Fail(run.calls, err),
                          !.thrown = <<err>>,
                          !.pc = "rejected"]]
    /\ UNCHANGED <<llmClient, uiExecutor>>
    /\ UNCHANGED outsideRuns

\* updateClient(client): this.llmClient = client
UpdateClient(e, client) ==
    /\ llmClient[e] # "none"
    /\ llmClient' = [llmClient EXCEPT ![e] = client]
    /\ UNCHANGED <<uiExecutor, runs>>
    /\ UNCHANGED outsideRuns

\* FlowsUI.setLLMClient(client): this.executor = new FlowExecutor(client).
\* The executor the panel held keeps its client.
SetLLMClient(client) ==
    /\ uiExecutor' = "e3"
    /\ llmClient' = [llmClient EXCEPT !["e3"] = client]
    /\ UNCHANGED runs
    /\ UNCHANGED outsideRuns

\* Two execute calls not yet made, on the same executor or on two, the panel
\* holding the first executor.
InitRuns ==
    /\ llmClient = [e \in Executors |->
                      IF e = "e1" THEN "c1" ELSE IF e = "e2" THEN "c2" ELSE "none"]
    /\ uiExecutor = "e1"
    /\ \E f1 \in RunFlows, f2 \in RunFlows, e2 \in {"e1", "e2"} :
          runs = [r \in RunIds |->
                    [executor |-> IF r = "r1" THEN "e1" ELSE e2,
                     flow |-> IF r = "r1" THEN f1 ELSE f2,
                     initialInput |-> RunInput(r),
                     pc |-> "idle",
                     i |-> 0,
                     execution |-> NoExecution,
                     previousOutput |-> "",
                     calls |-> <<>>,
                     thrown |-> <<>>]]
    /\ ExecutorIdle
    /\ FormatIdle
    /\ ClientIdle
    /\ ValidateIdle
    /\ ParserIdle
    /\ FlowsUIIdle
    /\ ProxyIdle
    /\ ClockIdle
    /\ AppIdle

NextRuns ==
    \/ \E r \in RunIds : RunExecute(r)
    \/ \E r \in RunIds : RunChatResolve(r)
    \/ \E r \in RunIds : RunChatReject(r)
    \/ \E e \in Executors, client \in Clients : UpdateClient(e, client)
    \/ \E client \in Clients : SetLLMClient(client)

SpecRuns == InitRuns /\ [][NextRuns]_allVars

\* ------------------------------------------ properties of concurrent runs

\* The content a call made on client may resolve with.
AnswersOf(client) == {client \o ":" \o x : x \in RunAnswers}

\* The calls of an execute call that have resolved.
ResolvedCalls(run) ==
    {k \in 1..Len(run.calls) : run.calls[k].state = "resolved"}

\* C25: a provider call completes against the client instance it was started
\* on, whatever replaces the executor's client (updateClient) or the panel's
\* executor (setLLMClient) while it is in flight: the call is made on the
\* client the executor holds at that moment, a replacement touches no call,
\* a call keeps its client, and a resolved call carries an answer of that
\* client, recorded as the output of its step.
C25_InFlightCallKeepsClient ==
    /\ [](\A r \in DOMAIN runs : \A k \in ResolvedCalls(runs[r]) :
             LET call == runs[r].calls[k]
                 stepExecution == runs[r].execution.steps[call.step + 1]
             IN  /\ call.content[1] \in AnswersOf(call.client)
                 /\ stepExecution.status = "completed"
                 /\ stepExecution.output = call.content)
    /\ [][\A r \in DOMAIN runs :
             /\ (llmClient' # llmClient \/ uiExecutor' # uiExecutor)
                   => runs'[r] = runs[r]
             /\ \A k \in 1..Len(runs[r].calls) :
                   /\ k <= Len(runs'[r].calls)
                   /\ runs'[r].calls[k].client = runs[r].calls[k].client
             /\ Len(runs'[r].calls) > Len(runs[r].calls) =>
                   /\ Len(runs'[r].calls) = Len(runs[r].calls) + 1
                   /\ runs'[r].calls[Len(runs'[r].calls)].client =
                         llmClient[runs[r].executor]
                   /\ runs'[r].calls[Len(runs'[r].calls)].state = "inflight"
       ]_allVars

\* The client of e1 was replaced while the first call of r1 was in flight:
\* that call resolved with the answer of c1 and the next call, made as it
\* resolved, went to c2.
C25_Witness ==
    /\ runs # <<>>
    /\ Len(runs["r1"].calls) = 2
    /\ runs["r1"].calls[1].client = "c1"
    /\ runs["r1"].calls[1].content = <<"c1:A">>
    /\ runs["r1"].execution.steps[1].output = <<"c1:A">>
    /\ runs["r1"].calls[2].client = "c2"
    /\ llmClient["e1"] = "c2"

\* What the previous output of an execute call is when its call k is made,
\* told from its own arguments and its own provider results.
OwnPrevious(run, k) ==
    IF k = 1 THEN run.initialInput ELSE run.calls[k - 1].content[1]

\* The step, status, output and error of a StepExecution.
StepFacts(stepExecution) ==
    [step |-> stepExecution.step, status |-> stepExecution.status,
     output |-> stepExecution.output, error |-> stepExecution.error]

\* The step, status, output and error of step j of an execute call, told
\* from its own flow and its own provider results.
OwnStepExecution(run, j) ==
    IF j > Len(run.calls)
    THEN [step |-> run.flow[j], status |-> "pending",
          output |-> <<>>, error |-> <<>>]
    ELSE LET call == run.calls[j]
         IN  [step |-> run.flow[j],
              status |-> CASE call.state = "inflight" -> "running"
                           [] call.state = "resolved" -> "completed"
                           [] call.state = "rejected" -> "error",
              output |-> call.content,
              error |-> IF call.state = "rejected"
                        THEN <<ErrorText(call.error[1])>> ELSE <<>>]

\* The flow status of an execute call, told from its own provider results.
OwnStatus(run) ==
    IF \E k \in 1..Len(run.calls) : run.calls[k].state = "rejected"
    THEN "error"
    ELSE IF ResolvedCalls(run) = 1..Len(run.flow) THEN "completed"
    ELSE "running"

\* C26: two execute calls under way at once, on one executor or on two,
\* share no StepExecution record and no previous output: in every
\* interleaving the step records, the flow status, the previous output and
\* the prompt of every call of an execution are those its own flow, its own
\* initial input and its own provider results give, and a step of one
\* execution leaves the other as it was.
C26_RunsShareNothing ==
    /\ [](\A r \in DOMAIN runs :
             LET run == runs[r]
             IN  run.pc # "idle" =>
                    /\ Len(run.execution.steps) = Len(run.flow)
                    /\ \A j \in 1..Len(run.flow) :
                          StepFacts(run.execution.steps[j]) =
                             OwnStepExecution(run, j)
                    /\ run.execution.status = OwnStatus(run)
                    /\ \A k \in 1..Len(run.calls) :
                          /\ run.calls[k].step = k - 1
                          /\ run.calls[k].prompt =
                                formatStepPrompt(run.flow[k], OwnPrevious(run, k))
                    /\ run.pc = "awaiting" =>
                          run.previousOutput = OwnPrevious(run, Len(run.calls)))
    /\ [][\A r \in DOMAIN runs :
             runs'[r] # runs[r] => runs'[OtherRun(r)] = runs[OtherRun(r)]
       ]_allVars

\* Both execute calls run on executor e1 and both await their second call,
\* each on a prompt built from its own first answer.
C26_Witness ==
    /\ runs # <<>>
    /\ runs["r1"].executor = runs["r2"].executor
    /\ runs["r1"].pc = "awaiting" /\ runs["r2"].pc = "awaiting"
    /\ Len(runs["r1"].calls) = 2 /\ Len(runs["r2"].calls) = 2
    /\ runs["r1"].calls[1].content = <<"c1:A">>
    /\ runs["r2"].calls[1].content = <<"c2:A">>
    /\ runs["r1"].calls[2].prompt = "Given this content:\n\nc1:A\n\nSummarize this"
    /\ runs["r2"].calls[2].prompt = "Given this content:\n\nc2:A\n\nSummarize this"

\* ------------------------------------------------------------ api/chat.ts

\* Methods of the requests the proxy receives.
Methods == {"OPTIONS", "GET", "PUT", "POST"}

\* Request bodies: none at all (req.body is then not an object), or an
\* object whose fields provider, model and messages are each absent (<<>>)
\* or present (<<value>>); a present model may be the empty string and a
\* present messages array may be empty.
ProxyBodies ==
    {[present |-> FALSE]} \cup
    [present : {TRUE},
     provider : {<<>>, <<"claude">>, <<"openai">>, <<"gemini">>},
     model : {<<>>, <<"">>, <<"m">>},
     messages : {<<>>, <<MessagesOf(<<>>)>>, <<MessagesOf(<<"user">>)>>},
     stream : BOOLEAN]

\* !field of a string or array field: undefined and '' are falsy, an array
\* is truthy even when empty.
Falsy(field) == field = <<>> \/ field[1] = ""

\* The statuses the handler itself answers with.
Answer405 == 405
Answer400 == 400
Answer500 == 500

\* res.status(status).json({ error }), res.status(200).json(data) or the
\* end of a relayed stream.
ProxyAnswer(status, error) == <<[status |-> status, error |-> error]>>

\* The key handleClaude or handleOpenAI reads from process.env.
KeyConfigured(prov) == env[prov]

\* The handler from the field check to its first await: the answer it
\* sends, if it sends one, and the provider call it makes, if it makes one.
ProxyDispatch(body) ==
    IF Falsy(body.provider) \/ Falsy(body.model) \/ body.messages = <<>>
    THEN [answer |-> ProxyAnswer(Answer400, "Missing required fields"),
          calls |-> <<>>]
    ELSE IF body.provider \in {<<"claude">>, <<"openai">>}
    THEN IF ~KeyConfigured(body.provider[1])
         THEN [answer |-> ProxyAnswer(Answer500, "API key not configured"),
               calls |-> <<>>]
         ELSE [answer |-> <<>>,
               calls |-> <<[provider |-> body.provider[1], state |-> "inflight"]>>]
    ELSE [answer |-> ProxyAnswer(Answer400, "Invalid provider"), calls |-> <<>>]

\* handler(req, res) up to its first await or to its return. Destructuring
\* a body that is not an object throws a TypeError inside the try block,
\* which the catch answers with status 500.
ProxyHandler ==
    /\ ppc = "received"
    /\ IF proxyReq.method = "OPTIONS"
       THEN /\ proxyRes' = ProxyAnswer(200, "")
            /\ upstream' = upstream
            /\ ppc' = "answered"
       ELSE IF proxyReq.method # "POST"
       THEN /\ proxyRes' = ProxyAnswer(Answer405, "Method not allowed")
            /\ upstream' = upstream
            /\ ppc' = "answered"
       ELSE IF ~proxyReq.body.present
       THEN /\ proxyRes' = ProxyAnswer(Answer500, "Cannot destructure property")
            /\ upstream' = upstream
            /\ ppc' = "answered"
       ELSE LET dispatch == ProxyDispatch(proxyReq.body)
            IN  /\ proxyRes' = dispatch.answer
                /\ upstream' = upstream \o dispatch.calls
                /\ ppc' = IF dispatch.calls = <<>> THEN "answered" ELSE "fetching"
    /\ UNCHANGED <<proxyReq, env>>
    /\ UNCHANGED outsideProxy

\* await fetch(...) rejects: the handler's catch answers 500.
ProxyFetchReject ==
    /\ ppc = "fetching"
    /\ upstream' = [upstream EXCEPT ![Len(upstream)].state = "rejected"]
    /\ proxyRes' = ProxyAnswer(Answer500, "fetch failed")
    /\ ppc' = "answered"
    /\ UNCHANGED <<proxyReq, env>>
    /\ UNCHANGED outsideProxy

\* await fetch(...) resolves: a response that is not ok is answered with
\* the upstream status; an ok response is answered with its JSON body, or
\* relayed when streaming was asked for.
ProxyFetchResolve ==
    /\ ppc = "fetching"
    /\ \E status \in Statuses :
          /\ upstream' = [upstream EXCEPT ![Len(upstream)].state = "resolved"]
          /\ IF ~Ok(status)
             THEN /\ proxyRes' = ProxyAnswer(status, "upstream error")
                  /\ ppc' = "answered"
             ELSE IF proxyReq.body.stream
             THEN /\ proxyRes' = proxyRes
                  /\ ppc' = "relaying"
             ELSE /\ proxyRes' = ProxyAnswer(200, "")
                  /\ ppc' = "answered"
    /\ UNCHANGED <<proxyReq, env>>
    /\ UNCHANGED outsideProxy

\* The relay loop ends, by the end of the upstream body or by a failing
\* read: res.end() either way.
ProxyRelayEnd ==
    /\ ppc = "relaying"
    /\ proxyRes' = ProxyAnswer(200, "")
    /\ ppc' = "answered"
    /\ UNCHANGED <<proxyReq, env, upstream>>
    /\ UNCHANGED outsideProxy

\* One request of any method, with or without a body, at a proxy whose
\* provider keys are configured or not.
InitProxy ==
    /\ proxyReq \in [method : Methods, body : ProxyBodies]
    /\ env \in [{"claude", "openai"} -> BOOLEAN]
    /\ ppc = "received"
    /\ proxyRes = <<>>
    /\ upstream = <<>>
    /\ ExecutorIdle
    /\ FormatIdle
    /\ ClientIdle
    /\ ValidateIdle
    /\ ParserIdle
    /\ FlowsUIIdle
    /\ RunsIdle
    /\ ClockIdle
    /\ AppIdle

NextProxy ==
    \/ ProxyHandler
    \/ ProxyFetchReject
    \/ ProxyFetchResolve
    \/ ProxyRelayEnd

SpecProxy == InitProxy /\ [][NextProxy]_allVars

\* The request is one the proxy rejects by its method.
NotPost == proxyReq.method # "POST"

\* The request is a POST that lacks provider, model or messages.
LacksRequired ==
    /\ proxyReq.method = "POST"
    /\ \/ ~proxyReq.body.present
       \/ proxyReq.body.provider = <<>>
       \/ proxyReq.body.model = <<>>
       \/ proxyReq.body.messages = <<>>

\* C27: the proxy never contacts a provider for a request it rejects: every
\* non-POST request is answered with status 405 and every POST lacking
\* provider, model or messages with status 400, and no upstream call is
\* made for either.
C27_RejectedBeforeUpstream ==
    /\ ppc # "idle" /\ (NotPost \/ LacksRequired) => upstream = <<>>
    /\ ppc = "answered" /\ NotPost => proxyRes[1].status = Answer405
    /\ ppc = "answered" /\ LacksRequired => proxyRes[1].status = Answer400

\* ------------------------------------------------- execute and time

\* One flow of each length, every step after the first building on the
\* previous output.
LiveFlows ==
    {[j \in 1..n |-> [order |-> j,
                      instruction |-> "Summarize this",
                      usesPreviousOutput |-> j > 1]] : n \in 0..MaxSteps}

InitLive ==
    /\ Init
    /\ flow \in LiveFlows
    /\ initialInput = "seed"
    /\ hasProgress
    /\ ~hasStepStream

\* The steps execute takes by itself: the code between two awaits runs to
\* its end once started.
OwnSteps == Execute \/ StepStart \/ ChatCall \/ Finish

\* execute under a runtime that runs what is ready to run. Nothing is
\* assumed of the provider: a call may settle or stay in flight for ever.
SpecLive == InitLive /\ [][Next]_allVars /\ WF_allVars(OwnSteps)

\* execute has returned or thrown with the flow completed or in error.
Ended ==
    \/ pc = "returned" /\ execution.status = "completed"
    \/ pc = "rejected" /\ execution.status = "error"

\* A provider call is awaited: the flow and that step are running, every
\* later step is pending and the call is in flight.
Hung ==
    /\ pc = "await"
    /\ execution.status = "running"
    /\ execution.currentStepIndex = i
    /\ execution.steps[i + 1].status = "running"
    /\ \A j \in (i + 2)..Len(execution.steps) :
          execution.steps[j].status = "pending"
    /\ Len(calls) = i + 1
    /\ calls[Len(calls)].state = "inflight"

\* C28: execute enforces no timeout. If every provider call eventually
\* settles, execute eventually ends with the flow completed or in error. An
\* awaited call is left only by its settling, and while it is awaited
\* nothing moves: if it never settles, the flow and the step stay running
\* for ever, no later step starts, no further call is made and no further
\* notification is delivered.
C28_NoTimeout ==
    /\ [](pc = "await" => <>(pc # "await")) => <>Ended
    /\ [](pc = "await" => Hung)
    /\ [][pc = "await" =>
             \/ UNCHANGED <<execution, notified, calls, i, pc>>
             \/ /\ pc' # "await"
                /\ Len(calls') = Len(calls)
                /\ calls'[Len(calls')].state \in {"resolved", "rejected"}
       ]_allVars
    /\ <>[](pc = "await") => \E n \in 0..(2 * MaxSteps + 1) :
                                <>[](Hung /\ Len(notified) = n)

\* The second call of a flow of three steps is awaited: two steps have been
\* notified running, one completed, and the third step has not started.
C28_Witness ==
    /\ Hung
    /\ i = 1
    /\ Len(flow) = 3
    /\ Len(notified) = 4
    /\ execution.steps[3].status = "pending"

\* C29: once handleStream has acquired the response reader it releases it
\* on every exit path before chat settles: the reader is locked only while
\* the read loop runs, every step that leaves the loop (end of stream,
\* failing read, exception raised while a chunk is processed) releases it,
\* and a settled chat call never leaves a reader locked.
C29_ReaderReleased ==
    /\ [](reader = "locked" <=> cpc = "reading")
    /\ [](cpc \in {"resolved", "rejected"} /\ response # <<>>
             /\ Ok(response[1].status) /\ response[1].readable
             /\ UsesStreamHandler
          => reader = "released")
    /\ [][reader = "locked" /\ cpc' # "reading" =>
             reader' = "released" /\ cpc' \in {"resolved", "rejected"}]_allVars

\* An OpenAI stream whose observer threw on the '[DONE]' line after a text
\* frame: chat rejected and the reader is released.
C29_Witness ==
    /\ cpc = "rejected"
    /\ provider = "openai"
    /\ reader = "released"
    /\ outcome[1].message = "observer failed"
    /\ fullContent = "Hel"
    /\ Len(chunks) = 2 /\ chunks[2].done

\* ------------------------------------------------ execute and the clock

\* Latest reading of the clock followed.
MaxClock == 2

\* Time passes.
Tick ==
    /\ now < MaxClock
    /\ now' = now + 1
    /\ UNCHANGED outsideClock

InitTimed ==
    /\ Init
    /\ flow \in LiveFlows
    /\ initialInput = "seed"
    /\ hasProgress
    /\ ~hasStepStream

NextTimed ==
    \/ Execute
    \/ StepStart
    \/ ChatCall
    \/ ChatResolve
    \/ ChatReject
    \/ Finish
    \/ Tick

SpecTimed == InitTimed /\ [][NextTimed]_allVars

\* Faulty variant of StepsThrough: the snapshot holds a copy of the steps
\* made when it was delivered.
StepsThroughCopied(snapshot, live) == snapshot.steps

\* What the holder of a delivered snapshot reads as snapshot.steps later on:
\* { ...execution } copies the reference to the steps array, so the array
\* and the step records read are the ones execute keeps assigning to.
StepsThrough(snapshot, live) == live.steps

\* The n-th snapshot delivered, as its holder reads it now.
Held(n) == [notified[n] EXCEPT !.steps = StepsThrough(notified[n], execution)]

\* The fields { ...execution } copies by value.
TopLevel(e) ==
    [status |-> e.status, currentStepIndex |-> e.currentStepIndex,
     startTime |-> e.startTime, endTime |-> e.endTime]

IsSet(field) == field # <<>>

StartedSteps(e) == {j \in 1..Len(e.steps) : e.steps[j].status # "pending"}

\* The position of the step of e started last.
LastStarted(e) ==
    CHOOSE j \in StartedSteps(e) : \A q \in StartedSteps(e) : q <= j

\* Once a step of e has been started, currentStepIndex is the index of the
\* step started last, the steps before it are completed and the steps after
\* it are pending.
IndexFollowsSteps(e) ==
    StartedSteps(e) # {} =>
       /\ e.currentStepIndex = LastStarted(e) - 1
       /\ \A j \in 1..Len(e.steps) :
             /\ j < e.currentStepIndex + 1 => e.steps[j].status = "completed"
             /\ j > e.currentStepIndex + 1 => e.steps[j].status = "pending"

\* C32: currentStepIndex never decreases during an execution; once a step
\* has been started it is, in the execution and in every snapshot
\* delivered, the index of the step started last, every step before it
\* being 'completed' and every step after it 'pending'; and when step k
\* fails, the execution that execute rejects with has currentStepIndex k.
C32_CurrentStepIndex ==
    /\ [](IndexFollowsSteps(execution))
    /\ [](\A n \in 1..Len(notified) :
             /\ IndexFollowsSteps(notified[n])
             /\ n > 1 => notified[n].currentStepIndex >=
                            notified[n - 1].currentStepIndex)
    /\ [](pc = "rejected" =>
             /\ execution.currentStepIndex = calls[Len(calls)].step
             /\ execution.steps[execution.currentStepIndex + 1].status = "error")
    /\ [][execution'.currentStepIndex >= execution.currentStepIndex]_allVars

\* The third step of a flow failed after two completed: the rejected
\* execution has currentStepIndex 2.
C32_Witness ==
    /\ pc = "rejected"
    /\ Len(flow) = 3
    /\ execution.currentStepIndex = 2
    /\ execution.steps[2].status = "completed"
    /\ execution.steps[3].status = "error"
    /\ hasProgress
    /\ notified[Len(notified)].currentStepIndex = 2

\* C33: execute called on a flow without steps does not fail: it makes no
\* provider call and never rejects, it returns, and what it returns is a
\* FlowExecution with status 'completed', no steps and currentStepIndex 0,
\* after exactly two notifications, the initial snapshot and the
\* 'completed' one.
C33_EmptyFlowCompletes ==
    /\ [](Len(flow) = 0 =>
             /\ calls = <<>>
             /\ pc # "rejected" /\ thrown = <<>>
             /\ Len(notified) <= 2
             /\ pc = "returned" =>
                   /\ execution.status = "completed"
                   /\ execution.steps = <<>>
                   /\ execution.currentStepIndex = 0
                   /\ Len(notified) = 2
                   /\ notified[1].status = "running" /\ notified[1].steps = <<>>
                   /\ notified[2].status = "completed" /\ notified[2].steps = <<>>)
    /\ (Len(flow) = 0 => <>(pc = "returned"))

C33_Witness ==
    /\ Len(flow) = 0
    /\ pc = "returned"
    /\ execution.status = "completed"
    /\ Len(notified) = 2
    /\ calls = <<>>

\* ------------------------------- two executions given the same answers

\* The flows executed twice: every instruction and flag, up to MaxRunSteps
\* steps.
PairFlows == UNION {FlowsOfLength(n) : n \in 1..MaxRunSteps}

\* What the awaited call of a run resolving with content leads to, up to
\* the next await or the return.
RunResolved(run, content, client, other) ==
    RunLoop([run EXCEPT
               !.execution = MarkCompleted(run.execution, run.i, content),
               !.previousOutput = NextPreviousOutput(run.previousOutput, content),
               !.calls = Settle(run.calls, "resolved", <<content>>),
               !.i = run.i + 1],
            client, other)

\* Both execute calls are made.
PairExecute ==
    /\ \A r \in RunIds : runs[r].pc = "idle"
    /\ runs' = [r \in RunIds |->
                  RunLoop([runs[r] EXCEPT
                             !.execution = NewExecution(runs[r].flow),
                             !.previousOutput = runs[r].initialInput,
                             !.i = 0],
                          llmClient[runs[r].executor],
                          runs[OtherRun(r)])]
    /\ UNCHANGED <<llmClient, uiExecutor>>
    /\ UNCHANGED outsideRuns

\* The awaited calls of both resolve, with the same content.
PairResolve ==
    /\ \A r \in RunIds : runs[r].pc = "awaiting"
    /\ \E content \in Contents :
          runs' = [r \in RunIds |->
                     RunResolved(runs[r], content, llmClient[runs[r].executor],
                                 runs[OtherRun(r)])]
    /\ UNCHANGED <<llmClient, uiExecutor>>
    /\ UNCHANGED outsideRuns

\* The awaited calls of both reject, with the same error.
PairReject ==
    /\ \A r \in RunIds : runs[r].pc = "awaiting"
    /\ \E err \in Errors :
          runs' = [r \in RunIds |->
                     [runs[r] EXCEPT
                        !.execution = MarkError(runs[r].execution, runs[r].i, err),
                        !.calls = Fail(runs[r].calls, err),
                        !.thrown = <<err>>,
                        !.pc = "rejected"]]
    /\ UNCHANGED <<llmClient, uiExecutor>>
    /\ UNCHANGED outsideRuns

\* Two execute calls not yet made, on one flow, with any two initial inputs.
InitPair ==
    /\ llmClient = [e \in Executors |-> IF e = "e3" THEN "none" ELSE "c1"]
    /\ uiExecutor = "e1"
    /\ \E f \in PairFlows, in1 \in InitialInputs, in2 \in InitialInputs :
          runs = [r \in RunIds |->
                    [executor |-> "e1",
                     flow |-> f,
                     initialInput |-> IF r = "r1" THEN in1 ELSE in2,
                     pc |-> "idle",
                     i |-> 0,
                     execution |-> NoExecution,
                     previousOutput |-> "",
                     calls |-> <<>>,
                     thrown |-> <<>>]]
    /\ ExecutorIdle
    /\ FormatIdle
    /\ ClientIdle
    /\ ValidateIdle
    /\ ParserIdle
    /\ FlowsUIIdle
    /\ ProxyIdle
    /\ ClockIdle
    /\ AppIdle

NextPair ==
    \/ PairExecute
    \/ PairResolve
    \/ PairReject

SpecPair == InitPair /\ [][NextPair]_allVars

\* The prompts an execute call has sent, in order.
PromptsOf(run) == [k \in 1..Len(run.calls) |-> run.calls[k].prompt]

\* C34: for a flow whose first step has usesPreviousOutput = false, the
\* initialInput passed to execute influences no prompt: two executions of
\* the flow that differ at most in initialInput and are given the same
\* provider responses send the same prompts.
C34_InitialInputUnused ==
    runs # <<>> /\ ~runs["r1"].flow[1].usesPreviousOutput =>
       PromptsOf(runs["r1"]) = PromptsOf(runs["r2"])

\* Two executions of a two-step flow with initial inputs "" and "seed" have
\* sent the same two prompts, the second built on the common first answer.
C34_Witness ==
    /\ runs # <<>>
    /\ Len(runs["r1"].flow) = 2
    /\ ~runs["r1"].flow[1].usesPreviousOutput
    /\ runs["r1"].flow[2].usesPreviousOutput
    /\ runs["r1"].initialInput = ""
    /\ runs["r2"].initialInput = "seed"
    /\ Len(runs["r1"].calls) = 2
    /\ runs["r1"].calls[1].content = <<"Lorem">>
    /\ PromptsOf(runs["r1"]) = PromptsOf(runs["r2"])
    /\ runs["r1"].calls[2].prompt # runs["r1"].flow[2].instruction

\* The previous output as call c of the execution is made: the initial
\* input for the first step, the content of the call before otherwise.
PreviousAt(c) == IF c = 1 THEN initialInput ELSE calls[c - 1].content[1]

\* C35: when the previous output is the empty string, a step with
\* usesPreviousOutput = true is sent exactly its instruction: the prompt
\* carries neither the 'Given this content:' prefix nor the 'Content to
\* work with:' label.
C35_EmptyPreviousOutput ==
    \A c \in 1..Len(calls) :
        LET step == flow[calls[c].step + 1]
            prompt == calls[c].messages[1].content
        IN  (step.usesPreviousOutput /\ PreviousAt(c) = "") =>
               /\ prompt = step.instruction
               /\ ~Contains(prompt, "Given this content:")
               /\ ~Contains(prompt, "Content to work with:")

\* The first step completed with empty content and the second step, which
\* builds on the previous output, was sent its bare instruction.
C35_Witness ==
    /\ Len(calls) = 2
    /\ calls[1].content = <<"">>
    /\ execution.steps[1].status = "completed"
    /\ flow[2].usesPreviousOutput
    /\ calls[2].messages[1].content = flow[2].instruction

\* A line the loop of handleStream skips: one that does not start with
\* 'data: ' ("event", or the tail of a line the transport cut) or whose
\* payload is not valid JSON ("invalid", or the head of a cut line).
Skipped(e) == e.cut \/ e.line.kind \in {"event", "invalid"}

\* The observer calls the lines do lead to once the skipped ones are left
\* out: one per non-empty text delta, one per terminal marker.
CallsOfKept(lines) ==
    LET kept == SelectSeq(lines,
                          LAMBDA e : /\ ~Skipped(e)
                                     /\ \/ e.line.kind = "terminal"
                                        \/ e.line.kind = "delta" /\ e.line.text # "")
    IN  [j \in 1..Len(kept) |->
            IF kept[j].line.kind = "terminal"
            THEN [content |-> "", done |-> TRUE]
            ELSE [content |-> kept[j].line.text, done |-> FALSE]]

\* C36: a streaming line that does not start with 'data: ' or whose payload
\* is not valid JSON is skipped without failing the call: while the stream
\* is read and when chat has resolved, the observer calls and the content
\* are exactly those of the other lines, those after a skipped line
\* included, and a chat call rejects during streaming only because a read
\* failed or the observer threw.
C36_BadLinesSkipped ==
    /\ (cpc \in {"reading", "resolved"} /\ reader # "none") =>
          /\ chunks = CallsOfKept(sent)
          /\ fullContent =
                Concat([j \in 1..Len(SelectSeq(chunks, LAMBDA c : ~c.done)) |->
                           SelectSeq(chunks, LAMBDA c : ~c.done)[j].content])
    /\ (cpc = "rejected" /\ reader = "released") =>
          outcome[1].message \in {"network error", "observer failed"}

\* A stream of a line with an invalid payload, a line without the 'data: '
\* prefix and a text frame has ended: the call resolved with the text of
\* the frame, which the observer was handed.
C36_Witness ==
    /\ StreamReturned
    /\ Len(sent) = 3
    /\ sent[1].line.kind = "invalid"
    /\ sent[2].line.kind = "event"
    /\ sent[3].line = [kind |-> "delta", text |-> "lo"] /\ ~sent[3].cut
    /\ chunks = <<[content |-> "lo", done |-> FALSE]>>
    /\ outcome[1].content = "lo"

\* C37: the stream handler is used only when streaming is requested and an
\* observer is supplied: a reader is acquired and the observer called only
\* then. If the request sets stream = false, a supplied observer is never
\* called, false is what the provider is asked for, and a resolved call
\* carries what handleNonStream built from one body; if stream is left
\* unset, the provider is asked for streaming exactly when an observer was
\* supplied.
C37_StreamHandlerChoice ==
    /\ (reader # "none" \/ chunks # <<>>) =>
          onStream /\ request.stream \in {"true", "unset"}
    /\ request.stream = "false" =>
          /\ chunks = <<>> /\ sent = <<>> /\ reader = "none"
          /\ \A f \in 1..Len(fetches) : fetches[f].stream = FALSE
          /\ cpc = "resolved" => outcome[1].usage = <<NoUsage>>
    /\ request.stream = "unset" =>
          \A f \in 1..Len(fetches) : fetches[f].stream = onStream

\* A call with stream = false and an observer resolved with the text of one
\* body; the observer was not called.
C37_Witness ==
    /\ request.stream = "false"
    /\ onStream
    /\ cpc = "resolved"
    /\ outcome[1].content = "Hello"
    /\ chunks = <<>>
    /\ reader = "none"

\* The execute call r goes from awaiting the call of one step to awaiting
\* the call of the next.
NextStepSent(r) ==
    /\ runs[r].pc = "awaiting"
    /\ runs'[r].pc = "awaiting"
    /\ Len(runs'[r].calls) = Len(runs[r].calls) + 1

\* C38: updateClient takes effect at the step boundaries of a running
\* execution. Called while the call of step i is in flight, it changes the
\* executor's client and nothing of the execution; the call of step i+1,
\* made as the call of step i resolves, goes to the client the executor
\* holds at that moment, so to the new client and not to the one step i was
\* sent to.
C38_UpdateAtStepBoundary ==
    [][\A r \in DOMAIN runs :
          LET e == runs[r].executor
              inFlight == runs[r].calls[Len(runs[r].calls)]
              made == runs'[r].calls[Len(runs'[r].calls)]
          IN  /\ (runs[r].pc = "awaiting" /\ llmClient'[e] # llmClient[e]) =>
                    /\ runs'[r] = runs[r]
                    /\ inFlight.state = "inflight"
              /\ NextStepSent(r) =>
                    /\ made.step = inFlight.step + 1
                    /\ made.client = llmClient[e]
                    /\ llmClient[e] # inFlight.client =>
                          made.client # inFlight.client
      ]_allVars

\* The execute call on executor e2 sent its first step to c2; the client
\* was replaced by c1 while that call was in flight, and the second step
\* went to c1.
C38_Witness ==
    /\ runs # <<>>
    /\ runs["r2"].executor = "e2"
    /\ runs["r2"].pc = "awaiting"
    /\ Len(runs["r2"].calls) = 2
    /\ runs["r2"].calls[1].client = "c2"
    /\ runs["r2"].calls[1].state = "resolved"
    /\ runs["r2"].calls[2].client = "c1"
    /\ llmClient["e2"] = "c1"

\* ------------------------------------------- main.ts, ui/config.ts, storage.ts

\* Most entries of appLog.
MaxAppOps == 3

\* Most flows kept in the store.
MaxStoredFlows == 4

\* The storage wrapper's prefix (storage.ts, constructor default).
StoragePrefix == "chatbot_flows_"

\* CONFIG_KEY and FLOWS_KEY as localStorage sees them: get, set and remove
\* address this.prefix + key.
ConfigItem == StoragePrefix \o "api_config"
FlowsItem == StoragePrefix \o "flows"

\* An item of another application on the same origin.
ForeignItem == "theme"

\* key.startsWith(prefix).
StartsWith(key, prefix) ==
    /\ Len(key) >= Len(prefix)
    /\ SubSeq(key, 1, Len(prefix)) = prefix

\* Storage.clear(): every key of localStorage that starts with the prefix is
\* removed, the others stay.
StorageClear(store) ==
    [k \in {key \in DOMAIN store : ~StartsWith(key, StoragePrefix)} |-> store[k]]

\* Storage.set(key, value).
StorageSet(store, item, value) ==
    [k \in DOMAIN store \cup {item} |-> IF k = item THEN value ELSE store[k]]

\* What the two key inputs of the dialog can hold once trimmed.
OpenAIKeyInputs == {"", "sk-o"}
ClaudeKeyInputs == {"", "sk-c"}
ProviderInputs == {"openai", "claude"}

\* value || undefined: <<>> stands for undefined, <<v>> for the string v.
OrUndefined(value) == IF value = "" THEN <<>> ELSE <<value>>

\* ConfigUI.getDefaultConfig(): no key at all.
getDefaultConfig ==
    [openaiApiKey |-> <<>>, claudeApiKey |-> <<>>,
     defaultProvider |-> "claude", openaiModel |-> "gpt-4"]

\* ConfigUI.hasValidConfig().
hasValidConfig(cf) == cf.openaiApiKey # <<>> \/ cf.claudeApiKey # <<>>

\* The configs handleSaveSettings can have stored: at least one key.
SavedConfigs ==
    {cf \in {[openaiApiKey |-> OrUndefined(o), claudeApiKey |-> OrUndefined(c),
              defaultProvider |-> p, openaiModel |-> "gpt-4"] :
                o \in OpenAIKeyInputs, c \in ClaudeKeyInputs, p \in ProviderInputs} :
        hasValidConfig(cf)}

\* new OpenAIClient(apiKey, model) and new ClaudeClient(apiKey), as far as the
\* key they will send is concerned.
NewOpenAIClient(key, model) == [kind |-> "openai", apiKey |-> key, model |-> model]
NewClaudeClient(key) == [kind |-> "claude", apiKey |-> key, model |-> "default"]

\* ConfigUI.createLLMClient(): the default provider's client when its key is
\* set, else a client for whichever key is set, else null (<<>>).
createLLMClient(cf) ==
    LET openai == [client |-> NewOpenAIClient(cf.openaiApiKey[1], cf.openaiModel),
                   provider |-> "OpenAI (" \o cf.openaiModel \o ")"]
        claude == [client |-> NewClaudeClient(cf.claudeApiKey[1]),
                   provider |-> "Claude 3.5 Sonnet"]
    IN  IF cf.defaultProvider = "openai" /\ cf.openaiApiKey # <<>> THEN <<openai>>
        ELSE IF cf.defaultProvider = "claude" /\ cf.claudeApiKey # <<>> THEN <<claude>>
        ELSE IF cf.openaiApiKey # <<>> THEN <<openai>>
        ELSE IF cf.claudeApiKey # <<>> THEN <<claude>>
        ELSE <<>>

\* The two panels as their constructors leave them.
NewChatUI == [llmClient |-> <<>>, provider |-> ""]
NewFlowsUI == [llmClient |-> <<>>, executor |-> <<>>]

\* Faulty variant of updateLLMClients: a null result takes the clients away.
updateLLMClientsDropsNull(cf, panels) ==
    LET clientInfo == createLLMClient(cf)
    IN  IF clientInfo # <<>>
        THEN [chat |-> [llmClient |-> <<clientInfo[1].client>>,
                        provider |-> clientInfo[1].provider],
              flows |-> [llmClient |-> <<clientInfo[1].client>>,
                         executor |-> <<clientInfo[1].client>>]]
        ELSE [chat |-> NewChatUI, flows |-> NewFlowsUI]

\* App.updateLLMClients(): when createLLMClient returns a client it is handed
\* to both panels (ChatUI.setLLMClient, FlowsUI.setLLMClient, which also
\* constructs a FlowExecutor on it); when it returns null nothing is done.
updateLLMClients(cf, panels) ==
    LET clientInfo == createLLMClient(cf)
    IN  IF clientInfo # <<>>
        THEN [chat |-> [llmClient |-> <<clientInfo[1].client>>,
                        provider |-> clientInfo[1].provider],
              flows |-> [llmClient |-> <<clientInfo[1].client>>,
                         executor |-> <<clientInfo[1].client>>]]
        ELSE panels

Panels == [chat |-> chatUI, flows |-> flowsUI]

LogEntry(op, client) == [op |-> op, client |-> client]

\* ConfigUI.handleSaveSettings(): refused without any key; else the config is
\* replaced, stored under CONFIG_KEY, and the application is told.
handleSaveSettings(openaiKey, claudeKey, defaultProvider) ==
    /\ Len(appLog) < MaxAppOps
    /\ IF openaiKey = "" /\ claudeKey = ""
       THEN UNCHANGED appVars
       ELSE LET saved == [openaiApiKey |-> OrUndefined(openaiKey),
                          claudeApiKey |-> OrUndefined(claudeKey),
                          defaultProvider |-> defaultProvider,
                          openaiModel |-> "gpt-4"]
                after == updateLLMClients(saved, Panels)
            IN  /\ config' = saved
                /\ localStorage' = StorageSet(localStorage, ConfigItem, saved)
                /\ chatUI' = after.chat
                /\ flowsUI' = after.flows
                /\ appLog' = Append(appLog, LogEntry("save", <<>>))
    /\ UNCHANGED outsideApp

\* ConfigUI.handleClearData(): once the user confirms, the store is cleared,
\* the config goes back to the default and the application is told.
handleClearData(confirmed) ==
    /\ Len(appLog) < MaxAppOps
    /\ IF ~confirmed
       THEN UNCHANGED appVars
       ELSE LET after == updateLLMClients(getDefaultConfig, Panels)
            IN  /\ localStorage' = StorageClear(localStorage)
                /\ config' = getDefaultConfig
                /\ chatUI' = after.chat
                /\ flowsUI' = after.flows
                /\ appLog' = Append(appLog, LogEntry("clear", <<>>))
    /\ UNCHANGED outsideApp

\* ChatUI.handleSendMessage() on a message without a model command: refused
\* when no client was handed over, else llmClient.chat is called on it.
handleSendMessage ==
    /\ Len(appLog) < MaxAppOps
    /\ IF chatUI.llmClient = <<>>
       THEN UNCHANGED appVars
       ELSE /\ appLog' = Append(appLog, LogEntry("chat", chatUI.llmClient))
            /\ UNCHANGED <<localStorage, config, chatUI, flowsUI>>
    /\ UNCHANGED outsideApp

\* FlowsUI.handleExecuteFlow() on a valid description: refused when no client
\* or no executor is held, else the executor runs the flow on its client.
AppExecuteFlow ==
    /\ Len(appLog) < MaxAppOps
    /\ IF flowsUI.llmClient = <<>> \/ flowsUI.executor = <<>>
       THEN UNCHANGED appVars
       ELSE /\ appLog' = Append(appLog, LogEntry("flow", flowsUI.executor))
            /\ UNCHANGED <<localStorage, config, chatUI, flowsUI>>
    /\ UNCHANGED outsideApp

\* FlowStorage.getAllFlows(): the stored list, or none.
getAllFlows(store) == IF FlowsItem \in DOMAIN store THEN store[FlowsItem] ELSE <<>>

\* FlowStorage.saveFlow(flow): the list is read, extended and stored again.
saveFlow(name) ==
    /\ Len(getAllFlows(localStorage)) < MaxStoredFlows
    /\ localStorage' = StorageSet(localStorage, FlowsItem,
                                  Append(getAllFlows(localStorage), name))
    /\ UNCHANGED <<config, chatUI, flowsUI, appLog>>
    /\ UNCHANGED outsideApp

\* The names of the first three EXAMPLE_FLOWS, which the application stores
\* when it finds no flow.
ExampleFlows ==
    <<"Content Analysis Pipeline", "Professional Rewriter", "Translation Comparison">>

\* new App(): the config is loaded from the store (the default if none was
\* saved), the clients are handed over if it has a key, and the example flows
\* are stored if there is no flow.
InitApp ==
    /\ \E saved \in {<<>>} \cup {<<cf>> : cf \in SavedConfigs},
          foreign \in BOOLEAN :
          LET loaded == IF saved = <<>> THEN getDefaultConfig ELSE saved[1]
              fresh == [chat |-> NewChatUI, flows |-> NewFlowsUI]
              after == IF hasValidConfig(loaded)
                       THEN updateLLMClients(loaded, fresh)
                       ELSE fresh
              items == {FlowsItem}
                       \cup (IF saved = <<>> THEN {} ELSE {ConfigItem})
                       \cup (IF foreign THEN {ForeignItem} ELSE {})
          IN  /\ config = loaded
              /\ chatUI = after.chat
              /\ flowsUI = after.flows
              /\ localStorage = [k \in items |->
                                   IF k = ConfigItem THEN loaded
                                   ELSE IF k = FlowsItem THEN ExampleFlows
                                   ELSE "dark"]
    /\ appLog = <<>>
    /\ ExecutorIdle /\ FormatIdle /\ ClientIdle /\ ValidateIdle /\ ParserIdle
    /\ FlowsUIIdle /\ RunsIdle /\ ProxyIdle /\ ClockIdle

NextApp ==
    \/ \E o \in OpenAIKeyInputs, c \in ClaudeKeyInputs, p \in ProviderInputs :
          handleSaveSettings(o, c, p)
    \/ \E confirmed \in BOOLEAN : handleClearData(confirmed)
    \/ handleSendMessage
    \/ AppExecuteFlow
    \/ saveFlow("Mine")

SpecApp == InitApp /\ [][NextApp]_allVars

\* The step appends this entry to appLog.
Logs(op) == appLog' = Append(appLog, LogEntry(op, <<>>))

\* Entry n of the log is a confirmed clear that no save has followed.
ClearedSince(n) ==
    /\ appLog[n].op = "clear"
    /\ \A m \in (n + 1)..Len(appLog) : appLog[m].op # "save"

====
